---- MODULE Spec2Model ----
(***************************************************************************)
(* The virtual-DOM diff/patch engine of packages/solidstep/utils/cache.ts: *)
(* VirtualNode and live-tree conversions, the skip rules, the child        *)
(* matcher, diffNode/diffChildren, applyDiff/apply and invertDiff/undo.    *)
(*                                                                         *)
(* Representation.  Indices and routes are 0-based as in the source; At    *)
(* reads a sequence at a 0-based index.  A JavaScript value that may be a  *)
(* string, a boolean, undefined or a VirtualNode (DiffResult.value,        *)
(* oldValue, newValue; VirtualNode.value, checked, selected) is a record   *)
(* [t, s, node] whose t is the result of typeof.  An attribute map is the  *)
(* sequence of its <<name, value>> pairs in insertion order, the order     *)
(* Object.keys and Element.attributes enumerate.  An undefined childNodes  *)
(* is the empty sequence: every reader of the field treats the two alike.  *)
(* The tokenisation of markup by tagRE/attrRE and the splitting of a       *)
(* selector string at commas are taken as given: markup is its sequence of *)
(* tags, each with the text that follows it, and a selector is its list of *)
(* simple selectors.                                                       *)
(***************************************************************************)
EXTENDS Integers, Sequences, FiniteSets, TLC

VARIABLES
    inA, inB,      \* the two arguments of diff: [kind, vnode, markup, node]
    opts,          \* the DiffOptions of the engine (createDiffDOM's options)
    objA, objB,    \* the VirtualNodes diff worked on, skip flags included
    script,        \* the DiffResult list diff returned
    live,          \* the live tree handed to apply and undo
    nextId,        \* identity of the next live node objToNode creates
    todo,          \* the operations apply has still to execute
    pc,            \* position of the caller: start, diffed, applying, ...
    applied,       \* result of apply (TRUE until an operation fails)
    undone,        \* result of undo
    cacheMap,      \* the page cache: key -> [key, value, expiresAt, prev, next]
    head, tail,    \* ends of the list of cache nodes (NoKey when undefined)
    now,           \* the latest reading of performance.now()
    call,          \* the latest call on the page cache: [op, key, ret, dropped],
                   \* dropped being the keys it took out of the cache
    uses,          \* history: the cached keys by their latest use, latest first
    zeroTtl        \* history: the keys whose latest setCache had ttl 0 or none

domVars == <<inA, inB, opts, objA, objB, script, live, nextId, todo, pc, applied, undone>>

cacheVars == <<cacheMap, head, tail, now, call, uses, zeroTtl>>

vars == <<domVars, cacheVars>>

----
\* NODE_TYPES
ELEMENT == 1
TEXT == 3
COMMENT == 8
DOCUMENT_FRAGMENT == 11

\* ACTIONS
ADD_ELEMENT == "addElement"
REMOVE_ELEMENT == "removeElement"
RELOCATE_ELEMENT == "relocateElement"
MODIFY_TEXT == "modifyTextElement"
REPLACE_ELEMENT == "replaceElement"
ADD_ATTRIBUTE == "addAttribute"
REMOVE_ATTRIBUTE == "removeAttribute"
MODIFY_ATTRIBUTE == "modifyAttribute"
MODIFY_VALUE == "modifyValue"
MODIFY_CHECKED == "modifyChecked"
MODIFY_SELECTED == "modifySelected"

\* SKIP_MODES
CHILDREN == "children"
FULL == "full"

At(s, i) == s[i + 1]

Max(a, b) == IF a > b THEN a ELSE b

\* A VirtualNode that stands for "no node" (null / undefined).
NoNode ==
    [nodeType |-> 0, nodeName |-> "", data |-> "", attributes |-> <<>>,
     value |-> "undefined", checked |-> "undefined", selected |-> "undefined",
     childNodes |-> <<>>, innerDone |-> FALSE, skipFull |-> FALSE]

\* JavaScript values: typeof tag, string form, node payload.
Undef == [t |-> "undefined", s |-> "", node |-> NoNode]
Str(s) == [t |-> "string", s |-> s, node |-> NoNode]
Bool(b) == [t |-> "boolean", s |-> b, node |-> NoNode]
Obj(n) == [t |-> "object", s |-> "", node |-> n]

\* VirtualNode.value / checked / selected hold "undefined" or the value's
\* string form; PropVal gives the JavaScript value read from the field.
PropStr(p) == IF p = "undefined" THEN Undef ELSE Str(p)
PropBool(p) == IF p = "undefined" THEN Undef ELSE Bool(p)

\* VirtualNode constructors (interface VirtualNode).
VElement(name, attrs, kids) ==
    [nodeType |-> ELEMENT, nodeName |-> name, data |-> "", attributes |-> attrs,
     value |-> "undefined", checked |-> "undefined", selected |-> "undefined",
     childNodes |-> kids, innerDone |-> FALSE, skipFull |-> FALSE]

VText(d) ==
    [nodeType |-> TEXT, nodeName |-> "#text", data |-> d, attributes |-> <<>>,
     value |-> "undefined", checked |-> "undefined", selected |-> "undefined",
     childNodes |-> <<>>, innerDone |-> FALSE, skipFull |-> FALSE]

VComment(d) ==
    [nodeType |-> COMMENT, nodeName |-> "#comment", data |-> d, attributes |-> <<>>,
     value |-> "undefined", checked |-> "undefined", selected |-> "undefined",
     childNodes |-> <<>>, innerDone |-> FALSE, skipFull |-> FALSE]

VFragment(kids) ==
    [nodeType |-> DOCUMENT_FRAGMENT, nodeName |-> "#document-fragment", data |-> "",
     attributes |-> <<>>,
     value |-> "undefined", checked |-> "undefined", selected |-> "undefined",
     childNodes |-> kids, innerDone |-> FALSE, skipFull |-> FALSE]

\* Attribute maps: sequences of <<name, value>> with distinct names.
AttrKeys(attrs) == [i \in 1..Len(attrs) |-> attrs[i][1]]

HasAttr(attrs, key) == \E i \in 1..Len(attrs) : attrs[i][1] = key

\* attrs[key]; "undefined" when the key is absent.
AttrGet(attrs, key) ==
    IF HasAttr(attrs, key)
    THEN attrs[CHOOSE i \in 1..Len(attrs) : attrs[i][1] = key][2]
    ELSE "undefined"

\* attrs[key] = val, in place for a present key, appended for a new one.
AttrSet(attrs, key, val) ==
    IF HasAttr(attrs, key)
    THEN [i \in 1..Len(attrs) |-> IF attrs[i][1] = key THEN <<key, val>> ELSE attrs[i]]
    ELSE Append(attrs, <<key, val>>)

AttrDel(attrs, key) == SelectSeq(attrs, LAMBDA p : p[1] # key)

\* The attribute map as a function, insertion order forgotten.
AttrMap(attrs) ==
    [k \in {attrs[i][1] : i \in 1..Len(attrs)} |-> AttrGet(attrs, k)]

\* String.prototype.toUpperCase on the names the model uses.
toUpperCase(s) ==
    CASE s = "div" -> "DIV"
      [] s = "p" -> "P"
      [] s = "li" -> "LI"
      [] s = "script" -> "SCRIPT"
      [] s = "style" -> "STYLE"
      [] s = "textarea" -> "TEXTAREA"
      [] s = "br" -> "BR"
      [] s = "svg" -> "SVG"
      [] OTHER -> s

normalizeNodeName(nodeName, caseSensitive) ==
    IF caseSensitive THEN nodeName ELSE toUpperCase(nodeName)

VOID_ELEMENTS ==
    {"AREA", "BASE", "BR", "COL", "EMBED", "HR", "IMG", "INPUT", "LINK", "META",
     "PARAM", "SOURCE", "TRACK", "WBR"}

isVoidElement(nodeName) == toUpperCase(nodeName) \in VOID_ELEMENTS

\* node.attributes['data-key'] || node.attributes.id || null ("" is falsy);
\* null is "undefined" here.
getElementKey(node) ==
    IF node.nodeType # ELEMENT THEN "undefined"
    ELSE LET dk == AttrGet(node.attributes, "data-key")
             id == AttrGet(node.attributes, "id")
         IN  IF dk # "undefined" /\ dk # "" THEN dk
             ELSE IF id # "undefined" /\ id # "" THEN id
             ELSE "undefined"

elementsMatch(nodeA, nodeB, options) ==
    IF nodeA.nodeType # nodeB.nodeType THEN FALSE
    ELSE IF nodeA.nodeType = TEXT \/ nodeA.nodeType = COMMENT
         THEN nodeA.data = nodeB.data
    ELSE IF nodeA.nodeType = ELEMENT
         THEN normalizeNodeName(nodeA.nodeName, options.caseSensitive)
              = normalizeNodeName(nodeB.nodeName, options.caseSensitive)
    ELSE FALSE

\* The union of both key lists in Set insertion order: the keys of a, then
\* the keys of b that a lacks.
UnionKeys(attrsA, attrsB) ==
    AttrKeys(attrsA) \o SelectSeq(AttrKeys(attrsB), LAMBDA k : ~HasAttr(attrsA, k))

\* A similarity score is the fraction <<matches, size>>; the comparisons the
\* source makes on the quotient are made on the fraction.
ScoreGt(s1, s2) == s1[1] * s2[2] > s2[1] * s1[2]

calculateSimilarity(nodeA, nodeB, options) ==
    IF ~elementsMatch(nodeA, nodeB, options) THEN <<0, 1>>
    ELSE IF nodeA.nodeType # ELEMENT THEN <<1, 1>>
    ELSE LET allKeys == UnionKeys(nodeA.attributes, nodeB.attributes)
             matches == Cardinality({i \in 1..Len(allKeys) :
                            AttrGet(nodeA.attributes, allKeys[i])
                            = AttrGet(nodeB.attributes, allKeys[i])})
         IN  IF Len(allKeys) = 0 THEN <<1, 1>>
             ELSE <<matches, Len(allKeys)>>

----
\* Number.POSITIVE_INFINITY, the default diffcap.
Infinity == -1

CapReached(count, options) ==
    options.debug /\ options.diffcap # Infinity /\ count >= options.diffcap

\* An absent from / to of a DiffResult.
NoRoute == <<-1>>

\* interface DiffResult; fields an operation does not set are undefined.
Op(action, route) ==
    [action |-> action, route |-> route, from |-> NoRoute, to |-> NoRoute,
     element |-> NoNode, index |-> -1, name |-> "",
     value |-> Undef, oldValue |-> Undef, newValue |-> Undef]

RECURSIVE diffAttributesFrom(_, _, _, _, _, _)
diffAttributesFrom(allKeys, i, oldAttrs, newAttrs, route, options) ==
    IF i > Len(allKeys) THEN <<>>
    ELSE LET key == allKeys[i]
             oldVal == AttrGet(oldAttrs, key)
             newVal == AttrGet(newAttrs, key)
             rest == diffAttributesFrom(allKeys, i + 1, oldAttrs, newAttrs, route, options)
         IN  IF key \in options.skipAttributes THEN rest
             ELSE IF oldVal = "undefined" /\ newVal # "undefined"
                  THEN <<[Op(ADD_ATTRIBUTE, route) EXCEPT
                            !.name = key, !.value = Str(newVal)]>> \o rest
             ELSE IF oldVal # "undefined" /\ newVal = "undefined"
                  THEN <<[Op(REMOVE_ATTRIBUTE, route) EXCEPT
                            !.name = key, !.value = Str(oldVal)]>> \o rest
             ELSE IF oldVal # newVal
                  THEN <<[Op(MODIFY_ATTRIBUTE, route) EXCEPT
                            !.name = key, !.oldValue = Str(oldVal),
                            !.newValue = Str(newVal)]>> \o rest
             ELSE rest

diffAttributes(oldAttrs, newAttrs, route, options) ==
    diffAttributesFrom(UnionKeys(oldAttrs, newAttrs), 1, oldAttrs, newAttrs, route, options)

\* The scan of findBestMatch from 0-based candidate i on.
RECURSIVE findBestMatchFrom(_, _, _, _, _, _)
findBestMatchFrom(oldChild, newChildren, i, bestIndex, bestScore, options) ==
    IF i >= Len(newChildren)
    THEN IF ScoreGt(bestScore, <<1, 2>>)
         THEN [found |-> TRUE, index |-> bestIndex, score |-> bestScore, keyMatch |-> FALSE]
         ELSE [found |-> FALSE, index |-> -1, score |-> <<0, 1>>, keyMatch |-> FALSE]
    ELSE LET newChild == At(newChildren, i)
             oldKey == getElementKey(oldChild)
             score == calculateSimilarity(oldChild, newChild, options)
         IN  IF oldKey # "undefined" /\ oldKey = getElementKey(newChild)
             THEN [found |-> TRUE, index |-> i, score |-> <<1, 1>>, keyMatch |-> TRUE]
             ELSE IF ScoreGt(score, bestScore)
                  THEN findBestMatchFrom(oldChild, newChildren, i + 1, i, score, options)
                  ELSE findBestMatchFrom(oldChild, newChildren, i + 1, bestIndex,
                                         bestScore, options)

findBestMatch(oldChild, newChildren, startIndex, options) ==
    findBestMatchFrom(oldChild, newChildren, startIndex, -1, <<0, 1>>, options)

\* The position test of the first pass for old child i ("exact position match").
PositionMatch(oldChildren, newChildren, i, newUsed, options) ==
    /\ i < Len(newChildren)
    /\ i \notin newUsed
    /\ elementsMatch(At(oldChildren, i), At(newChildren, i), options)
    /\ ScoreGt(calculateSimilarity(At(oldChildren, i), At(newChildren, i), options),
               <<7, 10>>)

\* The state of one diffChildren call: matches, oldUsed, newUsed and diffs as
\* the passes leave them, count the value of diffCount.value, ret TRUE once a
\* "return diffs" inside a loop has executed.
ChildState(count) ==
    [matches |-> <<>>, oldUsed |-> {}, newUsed |-> {}, diffs |-> <<>>,
     count |-> count, ret |-> FALSE]

\* matches.push({oldIndex, newIndex, score}); oldUsed.add; newUsed.add.
AddMatch(st, oldIndex, newIndex, score) ==
    [st EXCEPT !.matches = Append(@, [oldIndex |-> oldIndex, newIndex |-> newIndex,
                                      score |-> score]),
               !.oldUsed = @ \cup {oldIndex},
               !.newUsed = @ \cup {newIndex}]

\* The use the first pass makes of the result of findBestMatch for old child i.
AddBestMatch(st, i, match) ==
    IF match.found /\ match.index \notin st.newUsed
    THEN AddMatch(st, i, match.index, match.score)
    ELSE st

\* First pass of diffChildren from old child i on.
RECURSIVE findMatches(_, _, _, _, _)
findMatches(oldChildren, newChildren, i, st, options) ==
    IF i >= Len(oldChildren) THEN st
    ELSE IF PositionMatch(oldChildren, newChildren, i, st.newUsed, options)
    THEN findMatches(oldChildren, newChildren, i + 1,
            AddMatch(st, i, i,
                calculateSimilarity(At(oldChildren, i), At(newChildren, i), options)),
            options)
    ELSE findMatches(oldChildren, newChildren, i + 1,
            AddBestMatch(st, i, findBestMatch(At(oldChildren, i), newChildren, 0, options)),
            options)

\* matches.sort((a, b) => a.oldIndex - b.oldIndex): a stable insertion sort.
RECURSIVE InsertMatch(_, _)
InsertMatch(sorted, m) ==
    IF sorted = <<>> THEN <<m>>
    ELSE IF sorted[Len(sorted)].oldIndex <= m.oldIndex THEN Append(sorted, m)
    ELSE Append(InsertMatch(SubSeq(sorted, 1, Len(sorted) - 1), m), sorted[Len(sorted)])

RECURSIVE sortMatches(_)
sortMatches(matches) ==
    IF matches = <<>> THEN <<>>
    ELSE InsertMatch(sortMatches(SubSeq(matches, 1, Len(matches) - 1)),
                     matches[Len(matches)])

\* Third pass from old index i down to 0.
RECURSIVE removeUnmatched(_, _, _, _, _)
removeUnmatched(oldChildren, i, st, route, options) ==
    IF i < 0 THEN st
    ELSE IF i \in st.oldUsed
    THEN removeUnmatched(oldChildren, i - 1, st, route, options)
    ELSE LET pushed == Append(st.diffs,
                 [Op(REMOVE_ELEMENT, Append(route, i)) EXCEPT
                     !.element = At(oldChildren, i)])
         IN  IF options.debug /\ Len(pushed) >= st.count
             THEN [st EXCEPT !.diffs = pushed, !.ret = TRUE]
             ELSE removeUnmatched(oldChildren, i - 1, [st EXCEPT !.diffs = pushed],
                                  route, options)

\* Fourth pass from new index i up; not entered once the third pass returned.
RECURSIVE addUnmatched(_, _, _, _, _)
addUnmatched(newChildren, i, st, route, options) ==
    IF st.ret \/ i >= Len(newChildren) THEN st
    ELSE IF i \in st.newUsed
    THEN addUnmatched(newChildren, i + 1, st, route, options)
    ELSE LET pushed == Append(st.diffs,
                 [Op(ADD_ELEMENT, route) EXCEPT
                     !.element = At(newChildren, i), !.index = i])
         IN  IF options.debug /\ Len(pushed) >= st.count
             THEN [st EXCEPT !.diffs = pushed, !.ret = TRUE]
             ELSE addUnmatched(newChildren, i + 1, [st EXCEPT !.diffs = pushed],
                               route, options)

\* diffs.push(...childDiffs) after the relocation, if any, of the match;
\* child = [diffs, count] is the result of diffNode.
PushChildDiffs(st, relocated, child) ==
    [st EXCEPT !.diffs = relocated \o child.diffs, !.count = child.count]

RECURSIVE diffNode(_, _, _, _, _)
RECURSIVE diffMatched(_, _, _, _, _, _, _)

\* Second pass of diffChildren from the k-th match on (k 1-based).
diffMatched(oldChildren, newChildren, matches, k, st, route, options) ==
    IF k > Len(matches) THEN st
    ELSE LET match == matches[k]
             relocated ==
                 IF match.oldIndex # match.newIndex
                 THEN Append(st.diffs,
                        [Op(RELOCATE_ELEMENT, route) EXCEPT
                            !.from = Append(route, match.oldIndex),
                            !.to = Append(route, match.newIndex)])
                 ELSE st.diffs
         IN  IF match.oldIndex # match.newIndex /\ options.debug
                /\ Len(relocated) >= st.count
             THEN diffMatched(oldChildren, newChildren, matches, k + 1,
                              [st EXCEPT !.diffs = relocated], route, options)
             ELSE diffMatched(oldChildren, newChildren, matches, k + 1,
                    PushChildDiffs(st, relocated,
                        diffNode(At(oldChildren, match.oldIndex),
                                 At(newChildren, match.newIndex),
                                 Append(route, match.oldIndex), options, st.count)),
                    route, options)

\* matches.sort(...) and the second pass.
sortAndDiffMatched(oldChildren, newChildren, st, route, options) ==
    diffMatched(oldChildren, newChildren, sortMatches(st.matches), 1, st, route, options)

\* What diffChildren returns and the diffCount.value it leaves.
DiffsOf(st) == [diffs |-> st.diffs, count |-> st.count]

\* diffChildren returns [diffs, count], count the value of diffCount.value.
diffChildren(oldChildren, newChildren, route, options, count) ==
    DiffsOf(
      addUnmatched(newChildren, 0,
        removeUnmatched(oldChildren, Len(oldChildren) - 1,
          sortAndDiffMatched(oldChildren, newChildren,
            findMatches(oldChildren, newChildren, 0, ChildState(count), options),
            route, options),
          route, options),
        route, options))

\* The form-value operations of diffNode, in source order.
diffValues(oldNode, newNode, route, options) ==
    IF ~options.valueDiffing THEN <<>>
    ELSE (IF oldNode.value # newNode.value /\ newNode.value # "undefined"
          THEN <<[Op(MODIFY_VALUE, route) EXCEPT
                    !.oldValue = PropStr(oldNode.value),
                    !.newValue = PropStr(newNode.value)]>>
          ELSE <<>>)
      \o (IF oldNode.checked # newNode.checked /\ newNode.checked # "undefined"
          THEN <<[Op(MODIFY_CHECKED, route) EXCEPT
                    !.oldValue = PropBool(oldNode.checked),
                    !.newValue = PropBool(newNode.checked)]>>
          ELSE <<>>)
      \o (IF oldNode.selected # newNode.selected /\ newNode.selected # "undefined"
          THEN <<[Op(MODIFY_SELECTED, route) EXCEPT
                    !.oldValue = PropBool(oldNode.selected),
                    !.newValue = PropBool(newNode.selected)]>>
          ELSE <<>>)

\* diffNode pushing the operations of the children before the node's own.
PushChildrenFirst(own, kids) ==
    [diffs |-> kids.diffs \o own, count |-> kids.count + Len(own \o kids.diffs)]

\* diffs.push(...childDiffs) and the final diffCount.value += diffs.length of
\* diffNode; kids = [diffs, count] is the result of diffChildren.
PushChildren(own, kids) ==
    [diffs |-> own \o kids.diffs, count |-> kids.count + Len(own \o kids.diffs)]

\* The element branch of diffNode once its own operations (attributes and
\* form values) are in diffs.
diffElement(oldNode, newNode, route, options, count, own) ==
    IF CapReached(count + Len(own), options)
    THEN [diffs |-> own, count |-> count + Len(own)]
    ELSE IF oldNode.innerDone \/ newNode.innerDone \/ options.skipChildren
    THEN [diffs |-> own, count |-> count + Len(own)]
    ELSE PushChildren(own,
             diffChildren(oldNode.childNodes, newNode.childNodes, route, options,
                          count + Len(own)))

\* The operation of a text or comment pair and the diffCount.value it leaves.
diffData(oldNode, newNode, route, count) ==
    IF oldNode.data # newNode.data
    THEN [diffs |-> <<[Op(MODIFY_TEXT, route) EXCEPT
                         !.oldValue = Str(oldNode.data),
                         !.newValue = Str(newNode.data)]>>,
          count |-> count + 1]
    ELSE [diffs |-> <<>>, count |-> count]

\* diffNode returns [diffs, count]: the list and the diffCount.value it leaves.
diffNode(oldNode, newNode, route, options, count) ==
    IF CapReached(count, options) THEN [diffs |-> <<>>, count |-> count]
    ELSE IF oldNode.skipFull \/ newNode.skipFull THEN [diffs |-> <<>>, count |-> count]
    ELSE IF ~elementsMatch(oldNode, newNode, options)
    THEN [diffs |-> <<[Op(REPLACE_ELEMENT, route) EXCEPT
                         !.oldValue = Obj(oldNode), !.newValue = Obj(newNode)]>>,
          count |-> count + 1]
    ELSE IF oldNode.nodeType = TEXT \/ oldNode.nodeType = COMMENT
    THEN diffData(oldNode, newNode, route, count)
    ELSE IF oldNode.nodeType = ELEMENT
    THEN diffElement(oldNode, newNode, route, options, count,
             diffAttributes(oldNode.attributes, newNode.attributes, route, options)
             \o diffValues(oldNode, newNode, route, options))
    ELSE [diffs |-> <<>>, count |-> count]

----
\* Live (DOM) nodes.  nid is the node's identity; value / checked / selected
\* are the properties as last assigned ("undefined" when never assigned).
NoLive ==
    [nid |-> -1, nodeType |-> 0, nodeName |-> "", data |-> "", attributes |-> <<>>,
     value |-> "undefined", checked |-> "undefined", selected |-> "undefined",
     childNodes |-> <<>>]

\* node.childNodes[index], undefined (NoLive) out of range.
LiveChild(node, index) ==
    IF index >= 0 /\ index < Len(node.childNodes) THEN At(node.childNodes, index)
    ELSE NoLive

RECURSIVE getNodeByRoute(_, _)

\* getNodeByRoute stopping at the last node it reached instead of giving null.
RECURSIVE getNodeByRouteOrLast(_, _)
getNodeByRouteOrLast(root, route) ==
    IF route = <<>> THEN root
    ELSE IF LiveChild(root, route[1]) = NoLive THEN root
    ELSE getNodeByRouteOrLast(LiveChild(root, route[1]), Tail(route))

getNodeByRoute(root, route) ==
    IF route = <<>> THEN root
    ELSE IF LiveChild(root, route[1]) = NoLive THEN NoLive
    ELSE getNodeByRoute(LiveChild(root, route[1]), Tail(route))

\* Node.textContent of an element: the data of its Text descendants.
RECURSIVE TextContent(_)
RECURSIVE TextContentOf(_, _)
TextContentOf(kids, i) ==
    IF i > Len(kids) THEN <<>> ELSE TextContent(kids[i]) \o TextContentOf(kids, i + 1)

TextContent(node) ==
    IF node.nodeType = TEXT THEN <<node.data>>
    ELSE IF node.nodeType = COMMENT THEN <<>>
    ELSE TextContentOf(node.childNodes, 1)

\* The value / checked / selected a form control reports when the property was
\* never assigned: the DOM derives it from the markup.  A textarea's value is
\* its text content (kept as the single run it has in the model).
DomValue(node) ==
    IF node.value # "undefined" THEN node.value
    ELSE IF node.nodeName = "INPUT" THEN
        (IF HasAttr(node.attributes, "value") THEN AttrGet(node.attributes, "value") ELSE "")
    ELSE IF node.nodeName = "TEXTAREA" THEN
        (IF Len(TextContent(node)) = 1 THEN TextContent(node)[1] ELSE "")
    ELSE IF node.nodeName = "SELECT" THEN ""
    ELSE "undefined"

DomChecked(node) ==
    IF node.checked # "undefined" THEN node.checked
    ELSE IF node.nodeName = "INPUT"
         THEN (IF HasAttr(node.attributes, "checked") THEN "true" ELSE "false")
    ELSE "undefined"

DomSelected(node) ==
    IF node.selected # "undefined" THEN node.selected
    ELSE IF node.nodeName = "OPTION"
         THEN (IF HasAttr(node.attributes, "selected") THEN "true" ELSE "false")
    ELSE "undefined"

RECURSIVE nodeToObj(_, _)
RECURSIVE nodeToObjKids(_, _, _)
nodeToObjKids(kids, i, options) ==
    IF i > Len(kids) THEN <<>>
    ELSE <<nodeToObj(kids[i], options)>> \o nodeToObjKids(kids, i + 1, options)

nodeToObj(node, options) ==
    IF node.nodeType = TEXT THEN VText(node.data)
    ELSE IF node.nodeType = COMMENT THEN VComment(node.data)
    ELSE IF node.nodeType = ELEMENT
    THEN LET name == normalizeNodeName(node.nodeName, options.caseSensitive)
         IN  [VElement(name, node.attributes,
                  IF ~isVoidElement(name) THEN nodeToObjKids(node.childNodes, 1, options)
                  ELSE <<>>)
              EXCEPT !.value = IF options.valueDiffing
                                  /\ name \in {"INPUT", "TEXTAREA", "SELECT"}
                               THEN DomValue(node) ELSE "undefined",
                     !.checked = IF options.valueDiffing THEN DomChecked(node)
                                 ELSE "undefined",
                     !.selected = IF options.valueDiffing THEN DomSelected(node)
                                  ELSE "undefined"]
    ELSE IF node.nodeType = DOCUMENT_FRAGMENT
    THEN VFragment(nodeToObjKids(node.childNodes, 1, options))
    ELSE [NoNode EXCEPT !.nodeType = node.nodeType]

\* What appendChild / insertBefore insert for a node: a DocumentFragment
\* inserts its children, any other node itself.
Inserted(node) == IF node.nodeType = DOCUMENT_FRAGMENT THEN node.childNodes ELSE <<node>>

\* objToNode(obj) with the document handing out identities from id on:
\* the result is [node, next].  An HTML document's createElement reports the
\* tag name in upper case.
RECURSIVE objToNode(_, _)
RECURSIVE objToNodeKids(_, _, _, _)
objToNodeKids(kids, i, id, acc) ==
    IF i > Len(kids) THEN [nodes |-> acc, next |-> id]
    ELSE LET c == objToNode(kids[i], id)
         IN  objToNodeKids(kids, i + 1, c.next,
                 IF c.node = NoLive THEN acc ELSE acc \o Inserted(c.node))

objToNode(obj, id) ==
    IF obj.nodeType = TEXT \/ obj.nodeType = COMMENT
    THEN [node |-> [NoLive EXCEPT !.nid = id, !.nodeType = obj.nodeType,
                       !.nodeName = obj.nodeName, !.data = obj.data],
          next |-> id + 1]
    ELSE IF obj.nodeType = ELEMENT \/ obj.nodeType = DOCUMENT_FRAGMENT
    THEN LET kids == objToNodeKids(obj.childNodes, 1, id + 1, <<>>)
         IN  [node |-> [nid |-> id, nodeType |-> obj.nodeType,
                        nodeName |-> IF obj.nodeType = ELEMENT
                                     THEN toUpperCase(obj.nodeName) ELSE obj.nodeName,
                        data |-> "",
                        attributes |-> obj.attributes,
                        value |-> IF obj.nodeType = ELEMENT THEN obj.value ELSE "undefined",
                        checked |-> IF obj.nodeType = ELEMENT THEN obj.checked
                                    ELSE "undefined",
                        selected |-> IF obj.nodeType = ELEMENT THEN obj.selected
                                     ELSE "undefined",
                        childNodes |-> kids.nodes],
              next |-> kids.next]
    ELSE [node |-> NoLive, next |-> id]

----
\* Selectors.  A simple selector is [kind, tag, name, value] with kind one of
\* tag, id, class, attr, attrEq, tagClass, tagId; anything else matches nothing.
Sel(kind, tag, name, value) == [kind |-> kind, tag |-> tag, name |-> name, value |-> value]

\* attributes.class.split(/\s+/) on the class values the model uses.
SplitClasses(v) ==
    CASE v = "undefined" -> {}
      [] v = "x y" -> {"x", "y"}
      [] OTHER -> {v}

matchesSimpleSelector(node, selector) ==
    IF node.nodeType # ELEMENT THEN FALSE
    ELSE CASE selector.kind = "tag" ->
                normalizeNodeName(node.nodeName, FALSE) = toUpperCase(selector.tag)
           [] selector.kind = "id" ->
                AttrGet(node.attributes, "id") = selector.name
           [] selector.kind = "class" ->
                selector.name \in SplitClasses(AttrGet(node.attributes, "class"))
           [] selector.kind = "attr" ->
                HasAttr(node.attributes, selector.name)
           [] selector.kind = "attrEq" ->
                AttrGet(node.attributes, selector.name) = selector.value
           [] selector.kind = "tagClass" ->
                /\ normalizeNodeName(node.nodeName, FALSE) = toUpperCase(selector.tag)
                /\ selector.name \in SplitClasses(AttrGet(node.attributes, "class"))
           [] selector.kind = "tagId" ->
                /\ normalizeNodeName(node.nodeName, FALSE) = toUpperCase(selector.tag)
                /\ AttrGet(node.attributes, "id") = selector.name
           [] OTHER -> FALSE

\* selector is the list of the comma-separated simple selectors; the empty
\* list stands for a null or empty skipSelector.
matchesSelector(node, selector) ==
    \E i \in 1..Len(selector) : matchesSimpleSelector(node, selector[i])

\* Element.matches of the browser, on the selectors above.
DomMatches(domNode, selector) ==
    matchesSelector([NoNode EXCEPT !.nodeType = domNode.nodeType,
                                   !.nodeName = domNode.nodeName,
                                   !.attributes = domNode.attributes], selector)

\* options.skipPredicate is null ([on |-> FALSE]) or a predicate that answers
\* result ("true", "children", "full", "false") for the nodes named in names.
NoPredicate == [on |-> FALSE, names |-> {}, result |-> "false"]

\* The SkipMode shouldSkipElement returns, "false" for false.
shouldSkipElement(node, domNode, options) ==
    IF node.nodeType # ELEMENT THEN "false"
    ELSE IF options.skipSelector # <<>>
            /\ (IF domNode # NoLive /\ domNode.nodeType = ELEMENT
                THEN DomMatches(domNode, options.skipSelector)
                ELSE matchesSelector(node, options.skipSelector))
    THEN options.skipMode
    ELSE IF options.skipPredicate.on /\ node.nodeName \in options.skipPredicate.names
    THEN (IF options.skipPredicate.result = "true" THEN options.skipMode
          ELSE IF options.skipPredicate.result \in {CHILDREN, FULL}
               THEN options.skipPredicate.result
          ELSE "false")
    ELSE "false"

applySkipMode(node, skipMode) ==
    IF skipMode = CHILDREN THEN [node EXCEPT !.innerDone = TRUE]
    ELSE IF skipMode = FULL THEN [node EXCEPT !.skipFull = TRUE]
    ELSE node

\* applySkipLogic returns the node with the flags it sets, in the whole subtree.
RECURSIVE applySkipLogic(_, _, _)
RECURSIVE applySkipLogicKids(_, _, _, _)
applySkipLogicKids(kids, domNode, i, options) ==
    IF i > Len(kids) THEN <<>>
    ELSE <<applySkipLogic(kids[i], LiveChild(domNode, i - 1), options)>>
         \o applySkipLogicKids(kids, domNode, i + 1, options)

applySkipLogic(node, domNode, options) ==
    IF node.nodeType = ELEMENT
    THEN LET flagged == applySkipMode(node, shouldSkipElement(node, domNode, options))
         IN  IF ~flagged.skipFull
             THEN [flagged EXCEPT !.childNodes =
                      applySkipLogicKids(node.childNodes, domNode, 1, options)]
             ELSE flagged
    ELSE IF node.nodeType = COMMENT THEN applySkipMode(node, FULL)
    ELSE node

----
\* Mutations of the live tree.  A node is found by its identity nid.

RECURSIVE Contains(_, _)
Contains(tree, nid) ==
    \/ tree.nid = nid
    \/ \E i \in 1..Len(tree.childNodes) : Contains(tree.childNodes[i], nid)

\* The tree with the proper descendant nid replaced by the nodes `by`
\* (removeChild: by = <<>>; replaceChild: by = what the new node inserts).
RECURSIVE Splice(_, _, _)
RECURSIVE SpliceKids(_, _, _, _)
SpliceKids(kids, i, nid, by) ==
    IF i > Len(kids) THEN <<>>
    ELSE IF kids[i].nid = nid THEN by \o SpliceKids(kids, i + 1, nid, by)
    ELSE <<Splice(kids[i], nid, by)>> \o SpliceKids(kids, i + 1, nid, by)

Splice(tree, nid, by) ==
    IF tree.childNodes = <<>> THEN tree
    ELSE [tree EXCEPT !.childNodes = SpliceKids(tree.childNodes, 1, nid, by)]

\* The tree with node nid (the root or a descendant) changed to `node`.
Update(tree, nid, node) == IF tree.nid = nid THEN node ELSE Splice(tree, nid, <<node>>)

\* kids with `nodes` inserted before the child ref (appended when ref = -1).
InsertBeforeRef(kids, nodes, ref) ==
    IF ref = -1 THEN kids \o nodes
    ELSE LET at == CHOOSE i \in 1..Len(kids) : kids[i].nid = ref
         IN  SubSeq(kids, 1, at - 1) \o nodes \o SubSeq(kids, at, Len(kids))

\* parent.insertBefore(node, ref) / parent.appendChild(node) in the tree.
RECURSIVE InsertInto(_, _, _, _)
RECURSIVE InsertIntoKids(_, _, _, _, _)
InsertIntoKids(kids, i, parent, nodes, ref) ==
    IF i > Len(kids) THEN <<>>
    ELSE <<InsertInto(kids[i], parent, nodes, ref)>>
         \o InsertIntoKids(kids, i + 1, parent, nodes, ref)

InsertInto(tree, parent, nodes, ref) ==
    IF tree.nid = parent
    THEN [tree EXCEPT !.childNodes = InsertBeforeRef(tree.childNodes, nodes, ref)]
    ELSE IF tree.childNodes = <<>> THEN tree
    ELSE [tree EXCEPT !.childNodes = InsertIntoKids(tree.childNodes, 1, parent, nodes, ref)]

\* The identity of the sibling after child nid of parent, -1 for the last one.
NextSibling(parent, nid) ==
    LET at == CHOOSE i \in 1..Len(parent.childNodes) : parent.childNodes[i].nid = nid
    IN  IF at < Len(parent.childNodes) THEN parent.childNodes[at + 1].nid ELSE -1

\* A node that can take children: Text and Comment throw HierarchyRequestError.
CanHaveChildren(node) == node.nodeType \in {ELEMENT, DOCUMENT_FRAGMENT}

\* The hooks.  preDiffApply / postDiffApply are null ([on |-> FALSE]) or a
\* hook that, for the operations whose action is in `actions`, returns
\* `result` ("true", "truthy", "undefined") or throws ("throw").
NoHook == [on |-> FALSE, actions |-> {}, result |-> "undefined"]

HookResult(hook, diff) ==
    IF hook.on /\ diff.action \in hook.actions THEN hook.result ELSE "undefined"

\* applyDiff results: [ok, tree, next]; Fail leaves the tree as it is.
Fail(element, id) == [ok |-> FALSE, tree |-> element, next |-> id]
Done(tree, id, options, diff) ==
    IF HookResult(options.postDiffApply, diff) = "throw"
    THEN [ok |-> FALSE, tree |-> tree, next |-> id]
    ELSE [ok |-> TRUE, tree |-> tree, next |-> id]

\* case ACTIONS.ADD_ELEMENT
applyAddElement(element, diff, options, id) ==
    LET parent == IF diff.route = <<>> THEN element
                  ELSE getNodeByRoute(element, diff.route)
        made == objToNode(diff.element, id)
    IN  IF parent = NoLive \/ diff.element = NoNode THEN Fail(element, id)
        ELSE IF made.node = NoLive THEN Fail(element, id)
        ELSE IF ~CanHaveChildren(parent) THEN Fail(element, id)
        ELSE Done(InsertInto(element, parent.nid, Inserted(made.node),
                     IF diff.index # -1 /\ diff.index < Len(parent.childNodes)
                     THEN At(parent.childNodes, diff.index).nid ELSE -1),
                  made.next, options, diff)

\* case ACTIONS.REMOVE_ELEMENT; the root has no parentNode.
applyRemoveElement(element, target, diff, options, id) ==
    Done(IF target.nid # element.nid THEN Splice(element, target.nid, <<>>) ELSE element,
         id, options, diff)

\* case ACTIONS.RELOCATE_ELEMENT
applyRelocateElement(element, diff, options, id) ==
    IF diff.from = NoRoute \/ diff.to = NoRoute THEN Fail(element, id)
    ELSE LET fromNode == getNodeByRoute(element, diff.from)
             toParent == IF Len(diff.to) <= 1 THEN element
                         ELSE getNodeByRoute(element, SubSeq(diff.to, 1, Len(diff.to) - 1))
             toIndex == IF diff.to = <<>> THEN -1 ELSE diff.to[Len(diff.to)]
         IN  IF fromNode = NoLive \/ toParent = NoLive THEN Fail(element, id)
             ELSE IF ~CanHaveChildren(toParent) \/ Contains(fromNode, toParent.nid)
                  THEN Fail(element, id)
             ELSE LET refAt == IF toIndex >= 0 /\ toIndex < Len(toParent.childNodes)
                               THEN At(toParent.childNodes, toIndex).nid ELSE -1
                      ref == IF refAt = fromNode.nid
                             THEN NextSibling(toParent, fromNode.nid) ELSE refAt
                  IN  Done(InsertInto(Splice(element, fromNode.nid, <<>>), toParent.nid,
                                      Inserted(fromNode), ref),
                           id, options, diff)

\* case ACTIONS.MODIFY_TEXT; options.textDiff is "null", or a hook that sets
\* the data itself ("set") or leaves it ("noop").
applyModifyText(element, target, diff, options, id) ==
    IF target.nodeType = TEXT \/ target.nodeType = COMMENT
    THEN IF options.textDiff # "null" /\ diff.oldValue.t = "string"
            /\ diff.newValue.t = "string"
         THEN Done(IF options.textDiff = "set"
                   THEN Update(element, target.nid, [target EXCEPT !.data = diff.newValue.s])
                   ELSE element, id, options, diff)
         ELSE IF diff.newValue.t = "string"
         THEN Done(Update(element, target.nid, [target EXCEPT !.data = diff.newValue.s]),
                   id, options, diff)
         ELSE Done(element, id, options, diff)
    ELSE Done(element, id, options, diff)

\* case ACTIONS.REPLACE_ELEMENT; the root has no parentNode.
applyReplaceElement(element, target, diff, options, id) ==
    LET made == objToNode(diff.newValue.node, id)
    IN  IF diff.newValue.t # "object" THEN Fail(element, id)
        ELSE IF made.node = NoLive THEN Fail(element, id)
        ELSE Done(IF target.nid # element.nid
                  THEN Splice(element, target.nid, Inserted(made.node)) ELSE element,
                  made.next, options, diff)

\* The attribute and form-value cases.
applyAttribute(element, target, diff, options, id) ==
    CASE diff.action = ADD_ATTRIBUTE ->
            IF diff.name = "" \/ diff.value.t # "string" THEN Fail(element, id)
            ELSE Done(IF target.nodeType = ELEMENT
                      THEN Update(element, target.nid, [target EXCEPT !.attributes =
                               AttrSet(target.attributes, diff.name, diff.value.s)])
                      ELSE element, id, options, diff)
      [] diff.action = REMOVE_ATTRIBUTE ->
            IF diff.name = "" THEN Fail(element, id)
            ELSE Done(IF target.nodeType = ELEMENT
                      THEN Update(element, target.nid, [target EXCEPT !.attributes =
                               AttrDel(target.attributes, diff.name)])
                      ELSE element, id, options, diff)
      [] diff.action = MODIFY_ATTRIBUTE ->
            IF diff.name = "" \/ diff.newValue.t # "string" THEN Fail(element, id)
            ELSE Done(IF target.nodeType = ELEMENT
                      THEN Update(element, target.nid, [target EXCEPT !.attributes =
                               AttrSet(target.attributes, diff.name, diff.newValue.s)])
                      ELSE element, id, options, diff)
      [] diff.action = MODIFY_VALUE ->
            IF diff.newValue.t # "string" THEN Fail(element, id)
            ELSE Done(Update(element, target.nid, [target EXCEPT !.value = diff.newValue.s]),
                      id, options, diff)
      [] diff.action = MODIFY_CHECKED ->
            IF diff.newValue.t # "boolean" THEN Fail(element, id)
            ELSE Done(Update(element, target.nid,
                             [target EXCEPT !.checked = diff.newValue.s]),
                      id, options, diff)
      [] diff.action = MODIFY_SELECTED ->
            IF diff.newValue.t # "boolean" THEN Fail(element, id)
            ELSE Done(Update(element, target.nid,
                             [target EXCEPT !.selected = diff.newValue.s]),
                      id, options, diff)
      [] OTHER -> Fail(element, id)

\* applyDiff(element, diff, options): [ok, tree, next].  An exception thrown
\* inside the try block, by a hook or by the DOM, makes it return false.
applyDiff(element, diff, options, id) ==
    LET pre == HookResult(options.preDiffApply, diff)
        target == getNodeByRoute(element, diff.route)
    IN  IF pre = "throw" THEN Fail(element, id)
        ELSE IF pre = "true" THEN [ok |-> TRUE, tree |-> element, next |-> id]
        ELSE IF target = NoLive /\ diff.action # ADD_ELEMENT THEN Fail(element, id)
        ELSE CASE diff.action = ADD_ELEMENT -> applyAddElement(element, diff, options, id)
               [] diff.action = REMOVE_ELEMENT ->
                    applyRemoveElement(element, target, diff, options, id)
               [] diff.action = RELOCATE_ELEMENT ->
                    applyRelocateElement(element, diff, options, id)
               [] diff.action = MODIFY_TEXT ->
                    applyModifyText(element, target, diff, options, id)
               [] diff.action = REPLACE_ELEMENT ->
                    applyReplaceElement(element, target, diff, options, id)
               [] OTHER -> applyAttribute(element, target, diff, options, id)

invertDiff(diff) ==
    CASE diff.action = ADD_ELEMENT -> [diff EXCEPT !.action = REMOVE_ELEMENT]
      [] diff.action = REMOVE_ELEMENT ->
            [diff EXCEPT !.action = ADD_ELEMENT,
                         !.index = IF diff.route = <<>> THEN -1
                                   ELSE diff.route[Len(diff.route)]]
      [] diff.action = RELOCATE_ELEMENT -> [diff EXCEPT !.from = diff.to, !.to = diff.from]
      [] diff.action \in {MODIFY_TEXT, REPLACE_ELEMENT, MODIFY_ATTRIBUTE, MODIFY_VALUE,
                          MODIFY_CHECKED, MODIFY_SELECTED} ->
            [diff EXCEPT !.oldValue = diff.newValue, !.newValue = diff.oldValue]
      [] diff.action = ADD_ATTRIBUTE -> [diff EXCEPT !.action = REMOVE_ATTRIBUTE]
      [] diff.action = REMOVE_ATTRIBUTE -> [diff EXCEPT !.action = ADD_ATTRIBUTE]
      [] OTHER -> diff

\* [...diffs].reverse().map(invertDiff)
RECURSIVE invertedDiffs(_)
invertedDiffs(diffs) ==
    IF diffs = <<>> THEN <<>>
    ELSE Append(invertedDiffs(Tail(diffs)), invertDiff(Head(diffs)))

\* apply(element, diffs, options) as one call: [ok, tree, next], the loop
\* ending at the first operation applyDiff fails on.
RECURSIVE apply(_, _, _, _)
ApplyRest(r, diffs, options) ==
    IF r.ok THEN apply(r.tree, Tail(diffs), options, r.next) ELSE r

apply(element, diffs, options, id) ==
    IF diffs = <<>> THEN [ok |-> TRUE, tree |-> element, next |-> id]
    ELSE ApplyRest(applyDiff(element, Head(diffs), options, id), diffs, options)

----
\* Markup.  A markup string is [hasLead, lead, tags]: hasLead says that the
\* string does not start with '<', lead is the text before the first '<', and
\* tags are the matches of tagRE in order, each
\*   [kind, name, attrs, selfClosing, data, text]
\* with kind open / close / comment, name the tag name as written, attrs the
\* attributes attrRE finds, selfClosing whether the tag ends in "/>", data a
\* comment's content and text the characters between the tag and the next '<'.
Tag(kind, name, attrs, text) ==
    [kind |-> kind, name |-> name, attrs |-> attrs, selfClosing |-> FALSE,
     data |-> "", text |-> text]

CommentTag(data, text) ==
    [kind |-> "comment", name |-> "", attrs |-> <<>>, selfClosing |-> FALSE,
     data |-> data, text |-> text]

unescapeHTML(string) ==
    CASE string = "&lt;" -> "<"
      [] string = "&gt;" -> ">"
      [] string = "&amp;" -> "&"
      [] OTHER -> string

VOID_ELEMENTS_LOOKUP ==
    {"area", "base", "br", "col", "embed", "hr", "img", "input", "keygen", "link",
     "menuitem", "meta", "param", "source", "track", "wbr"}

\* String.prototype.toLowerCase on the names the model uses.
toLowerCase(s) ==
    CASE s = "DIV" -> "div"
      [] s = "P" -> "p"
      [] s = "SCRIPT" -> "script"
      [] s = "TEXTAREA" -> "textarea"
      [] s = "BR" -> "br"
      [] s = "SVG" -> "svg"
      [] OTHER -> s

\* parseTag on an opening tag: [node, voidElement].
parseTag(tag, caseSensitive) ==
    [node |-> VElement(IF caseSensitive \/ tag.name = "svg" THEN tag.name
                       ELSE toUpperCase(tag.name), tag.attrs, <<>>),
     voidElement |-> toLowerCase(tag.name) \in VOID_ELEMENTS_LOOKUP \/ tag.selfClosing]

\* arr[0..level] is the chain of open elements: arr[0] is the last node of
\* result and arr[d + 1] the last child of arr[d].
RECURSIVE SpineNode(_, _)
SpineNode(forest, depth) ==
    IF depth = 0 THEN forest[Len(forest)]
    ELSE SpineNode(forest[Len(forest)].childNodes, depth - 1)

\* arr[depth].node.childNodes.push(node); depth -1 is result.push(node).
RECURSIVE PushAtDepth(_, _, _)
PushAtDepth(forest, depth, node) ==
    IF depth = -1 THEN Append(forest, node)
    ELSE [forest EXCEPT ![Len(forest)].childNodes = PushAtDepth(@, depth - 1, node)]

\* The push of the text after a tag: into result at level -1, else into
\* arr[level].node.childNodes || [] (lost when the element has no childNodes).
PushText(st, data) ==
    IF st.level = -1 THEN [st EXCEPT !.result = Append(@, VText(data))]
    ELSE IF SpineNode(st.result, st.level).childNodes = <<>> THEN st
    ELSE [st EXCEPT !.result = PushAtDepth(@, st.level, VText(data))]

\* The closing part of the callback: if (!isOpen || current?.voidElement).
closeTag(st, tag, caseSensitive) ==
    LET matches ==
            /\ st.level > -1
            /\ st.hasCurrent
            /\ \/ st.voidElement
               \/ caseSensitive /\ st.nodeName = tag.name
               \/ ~caseSensitive /\ toUpperCase(st.nodeName) = toUpperCase(tag.name)
        closed ==
            IF ~matches THEN st
            ELSE IF st.level - 1 > -1
            THEN [st EXCEPT !.level = @ - 1,
                            !.insideSvg = IF st.nodeName \in {"SVG", "svg"} THEN FALSE ELSE @,
                            !.nodeName = SpineNode(st.result, st.level - 1).nodeName,
                            !.voidElement = FALSE]
            ELSE [st EXCEPT !.level = @ - 1]
    IN  IF tag.text # "" THEN PushText(closed, unescapeHTML(tag.text)) ELSE closed

\* One call of the replace callback of stringToObj.  st = [result, level,
\* hasCurrent, nodeName, voidElement, insideSvg]; nodeName and voidElement
\* are those of `current`.
parseStep(st, tag, options) ==
    IF tag.kind = "comment"
    THEN LET pushed == [st EXCEPT !.result = PushAtDepth(@, st.level, VComment(tag.data))]
         IN  IF tag.text # "" /\ unescapeHTML(tag.text) # ""
             THEN PushText(pushed, unescapeHTML(tag.text)) ELSE pushed
    ELSE IF tag.kind = "open"
    THEN LET parsed == parseTag(tag, options.caseSensitive \/ st.insideSvg)
             withText == ~parsed.voidElement /\ tag.text # ""
             node == IF withText
                     THEN [parsed.node EXCEPT
                             !.childNodes = <<VText(unescapeHTML(tag.text))>>,
                             !.value = IF options.valueDiffing
                                          /\ parsed.node.nodeName = "TEXTAREA"
                                       THEN unescapeHTML(tag.text) ELSE "undefined"]
                     ELSE parsed.node
             opened == [result |-> PushAtDepth(st.result, st.level, node),
                        level |-> st.level + 1,
                        hasCurrent |-> TRUE,
                        nodeName |-> node.nodeName,
                        voidElement |-> parsed.voidElement,
                        insideSvg |-> st.insideSvg \/ node.nodeName \in {"SVG", "svg"}]
         IN  IF parsed.voidElement THEN closeTag(opened, tag, options.caseSensitive)
             ELSE opened
    ELSE closeTag(st, tag, options.caseSensitive)

RECURSIVE parseTags(_, _, _, _)
parseTags(st, tags, i, options) ==
    IF i > Len(tags) THEN st
    ELSE parseTags(parseStep(st, tags[i], options), tags, i + 1, options)

stringToObj(htmlString, options) ==
    LET st0 == [result |-> IF htmlString.hasLead THEN <<VText(htmlString.lead)>> ELSE <<>>,
                level |-> -1, hasCurrent |-> FALSE, nodeName |-> "",
                voidElement |-> FALSE, insideSvg |-> FALSE]
        result == parseTags(st0, htmlString.tags, 1, options).result
    IN  IF Len(result) = 1 THEN result[1] ELSE VFragment(result)

----
DEFAULT_OPTIONS ==
    [skipSelector |-> <<>>, skipPredicate |-> NoPredicate, skipAttributes |-> {},
     skipChildren |-> FALSE, skipMode |-> CHILDREN, debug |-> FALSE,
     diffcap |-> Infinity, valueDiffing |-> TRUE, caseSensitive |-> FALSE,
     preDiffApply |-> NoHook, postDiffApply |-> NoHook, filterOuterDiff |-> "null",
     textDiff |-> "null"]

\* The arguments of diff: a markup string, a live node or a VirtualNode.
NoMarkup == [hasLead |-> FALSE, lead |-> "", tags |-> <<>>]
FromString(m) == [kind |-> "string", markup |-> m, node |-> NoLive, vnode |-> NoNode]
FromNode(n) == [kind |-> "node", markup |-> NoMarkup, node |-> n, vnode |-> NoNode]
FromVirtual(v) == [kind |-> "vnode", markup |-> NoMarkup, node |-> NoLive, vnode |-> v]

\* The argument that is the DOM node built like the tree v.
NodeOf(v) == FromNode(objToNode(v, 1).node)

\* nodeToObj handed a VirtualNode: a fresh VirtualNode without the skip flags.
\* element.attributes is then a plain record, whose length is undefined, so
\* the loop over it copies no attribute; value, checked and selected are the
\* fields of the VirtualNode.
RECURSIVE nodeToObjOfVirtual(_, _)
RECURSIVE nodeToObjOfVirtualKids(_, _, _)
nodeToObjOfVirtualKids(kids, i, options) ==
    IF i > Len(kids) THEN <<>>
    ELSE <<nodeToObjOfVirtual(kids[i], options)>>
         \o nodeToObjOfVirtualKids(kids, i + 1, options)

nodeToObjOfVirtual(node, options) ==
    IF node.nodeType = TEXT THEN VText(node.data)
    ELSE IF node.nodeType = COMMENT THEN VComment(node.data)
    ELSE IF node.nodeType = ELEMENT
    THEN LET name == normalizeNodeName(node.nodeName, options.caseSensitive)
         IN  [VElement(name, <<>>,
                  IF ~isVoidElement(name)
                  THEN nodeToObjOfVirtualKids(node.childNodes, 1, options)
                  ELSE <<>>)
              EXCEPT !.value = IF options.valueDiffing
                                  /\ name \in {"INPUT", "TEXTAREA", "SELECT"}
                               THEN node.value ELSE "undefined",
                     !.checked = IF options.valueDiffing THEN node.checked
                                 ELSE "undefined",
                     !.selected = IF options.valueDiffing THEN node.selected
                                  ELSE "undefined"]
    ELSE IF node.nodeType = DOCUMENT_FRAGMENT
    THEN VFragment(nodeToObjOfVirtualKids(node.childNodes, 1, options))
    ELSE [NoNode EXCEPT !.nodeType = node.nodeType]

\* The conversion diff makes of an argument: obj is the VirtualNode diff
\* works on, given says whether obj is the argument object itself.  A
\* VirtualNode has a numeric nodeType, so the test for a DOM node holds of it
\* and it goes through nodeToObj; the branch that takes the argument as it is
\* is never reached.
toObjAsGiven(element, options) ==
    IF element.kind = "string"
    THEN [obj |-> stringToObj(element.markup, options), given |-> FALSE]
    ELSE IF element.kind = "node"
    THEN [obj |-> nodeToObj(element.node, options), given |-> FALSE]
    ELSE [obj |-> element.vnode, given |-> TRUE]

toObj(element, options) ==
    IF element.kind = "string"
    THEN [obj |-> stringToObj(element.markup, options), given |-> FALSE]
    ELSE IF element.kind = "node"
    THEN [obj |-> nodeToObj(element.node, options), given |-> FALSE]
    ELSE [obj |-> nodeToObjOfVirtual(element.vnode, options), given |-> FALSE]

\* diff once both VirtualNodes carry their skip flags: the quick check and
\* diffNode from the empty route with diffCount.value 0.
diffObjs(a, b, options) ==
    [objA |-> a, objB |-> b,
     diffs |-> IF a.skipFull /\ b.skipFull THEN <<>>
               ELSE diffNode(a, b, <<>>, options, 0).diffs]

\* The domNode reference diff passes to applySkipLogic.  A VirtualNode passed
\* as domNode has no matches method and counts as no DOM node.
domNodeOf(element) == IF element.kind = "node" THEN element.node ELSE NoLive

\* The argument as the call leaves it: applySkipMode writes its flags into
\* the object it is handed, which is the caller's object when diff took the
\* argument as given.
Passed(element, converted, flagged) ==
    IF converted.given THEN [element EXCEPT !.vnode = flagged] ELSE element

\* diff once the skip flags are set on both VirtualNodes.
diffFlagged(elementA, elementB, a, b, flaggedA, flaggedB, options) ==
    [objA |-> flaggedA, objB |-> flaggedB,
     diffs |-> diffObjs(flaggedA, flaggedB, options).diffs,
     argA |-> Passed(elementA, a, flaggedA),
     argB |-> Passed(elementB, b, flaggedB)]

\* diff once both arguments are converted.
diffConverted(elementA, elementB, a, b, options) ==
    diffFlagged(elementA, elementB, a, b,
                applySkipLogic(a.obj, domNodeOf(elementA), options),
                applySkipLogic(b.obj, domNodeOf(elementB), options), options)

\* diff(elementA, elementB, options): [objA, objB, diffs, argA, argB], objA and
\* objB being the VirtualNodes diff worked on, argA and argB the arguments, all
\* as the call leaves them.
diff(elementA, elementB, options) ==
    diffConverted(elementA, elementB, toObj(elementA, options),
                  toObj(elementB, options), options)

\* The live tree of an argument: the node itself, or objToNode of its
\* VirtualNode, the first identity being 1.
RECURSIVE MaxNid(_)
RECURSIVE MaxNidOf(_, _)
MaxNidOf(kids, i) ==
    IF i > Len(kids) THEN 0 ELSE Max(MaxNid(kids[i]), MaxNidOf(kids, i + 1))

MaxNid(tree) == Max(tree.nid, MaxNidOf(tree.childNodes, 1))

materialize(element, options) ==
    IF element.kind = "node"
    THEN [node |-> element.node, next |-> MaxNid(element.node) + 1]
    ELSE IF element.kind = "vnode" THEN objToNode(element.vnode, 1)
    ELSE objToNode(toObj(element, options).obj, 1)

----
\* The page cache: a Map from key to node, and the nodes in a doubly linked
\* list from head (latest use) to tail.

\* const MAX_CACHE_ENTRIES (1000 in the source; the model keeps a small one).
MAX_CACHE_ENTRIES == 2

\* The latest reading performance.now() gives.
MaxTime == 2

\* Keys are numbered from 1; NoKey is an undefined head, tail, prev or next.
NoKey == 0
CacheKeys == 1..(MAX_CACHE_ENTRIES + 1)
CacheValues == {"page"}

\* The argument ttlMs: omitted, or a number of milliseconds.
NoTtl == [given |-> FALSE, ms |-> 0]
Ttl(ms) == [given |-> TRUE, ms |-> ms]
TtlArgs == {NoTtl, Ttl(0), Ttl(1)}

\* CacheValue.expiresAt: null or a time; Falsy is JavaScript's !expiresAt.
Null == [null |-> TRUE, ms |-> 0]
Time(ms) == [null |-> FALSE, ms |-> ms]
Falsy(expiresAt) == expiresAt.null \/ expiresAt.ms = 0

\* performance.now() + ttlMs whatever ttlMs is.
ExpiresAtAlways(ttlMs, t) == Time(t + ttlMs.ms)

\* ttlMs ? performance.now() + ttlMs : null
ExpiresAt(ttlMs, t) ==
    IF ttlMs.given /\ ttlMs.ms # 0 THEN Time(t + ttlMs.ms) ELSE Null

\* The cache as one value: [map, head, tail].
EmptyMap == [k \in {} |-> NoKey]
Cache(map, first, last) == [map |-> map, head |-> first, tail |-> last]

\* node.next = v and node.prev = v for the node of key k, if there is one.
SetNext(map, k, v) == IF k = NoKey THEN map ELSE [map EXCEPT ![k].next = v]

\* The assignment of prev left out.
SetPrevNever(map, k, v) == map

SetPrev(map, k, v) == IF k = NoKey THEN map ELSE [map EXCEPT ![k].prev = v]

\* cacheMap.delete(key)
MapDelete(map, key) == [k \in DOMAIN map \ {key} |-> map[k]]

\* moveToFront leaving the list as it is.
moveToFrontNever(c, key) == c

moveToFront(c, key) ==
    IF key = c.head THEN c
    ELSE LET node == c.map[key]
             detached == SetPrev(SetNext(c.map, node.prev, node.next),
                                 node.next, node.prev)
             last == IF key = c.tail THEN node.prev ELSE c.tail
         IN  Cache(SetPrev([detached EXCEPT ![key].prev = NoKey, ![key].next = c.head],
                           c.head, key),
                   key,
                   IF last = NoKey THEN key ELSE last)

removeTail(c) ==
    IF c.tail = NoKey THEN c
    ELSE IF c.map[c.tail].prev # NoKey
    THEN Cache(SetNext(MapDelete(c.map, c.tail), c.map[c.tail].prev, NoKey),
               c.head, c.map[c.tail].prev)
    ELSE Cache(MapDelete(c.map, c.tail), NoKey, NoKey)

\* The node of key taken out of the list and of the map, as getCache does
\* with an expired entry and invalidateCache with any.
unlink(c, key) ==
    LET node == c.map[key]
    IN  Cache(MapDelete(SetPrev(SetNext(c.map, node.prev, node.next),
                                node.next, node.prev), key),
              IF key = c.head THEN node.next ELSE c.head,
              IF key = c.tail THEN node.prev ELSE c.tail)

\* getCache(key) at time t: [cache, ret], ret being "null" or the value.
getCache(c, key, t) ==
    IF key \notin DOMAIN c.map THEN [cache |-> c, ret |-> "null"]
    ELSE IF Falsy(c.map[key].expiresAt) THEN [cache |-> c, ret |-> "null"]
    ELSE IF c.map[key].expiresAt.ms < t THEN [cache |-> unlink(c, key), ret |-> "null"]
    ELSE [cache |-> moveToFront(c, key), ret |-> c.map[key].value]

\* The new node of setCache put before head and into the map.
InsertNew(c, key, value, expiresAt) ==
    Cache((key :> [key |-> key, value |-> value, expiresAt |-> expiresAt,
                   prev |-> NoKey, next |-> c.head])
              @@ SetPrev(c.map, c.head, key),
          key,
          IF c.tail = NoKey THEN key ELSE c.tail)

\* setCache without the test of the size.
EvictNever(c) == c

\* if (cacheMap.size > MAX_CACHE_ENTRIES) removeTail()
EvictIfOver(c) ==
    IF Cardinality(DOMAIN c.map) > MAX_CACHE_ENTRIES THEN removeTail(c) ELSE c

\* setCache(key, value, ttlMs) at time t: the cache it leaves.
setCache(c, key, value, ttlMs, t) ==
    IF key \in DOMAIN c.map
    THEN moveToFront(
             Cache([c.map EXCEPT ![key].value = value,
                                 ![key].expiresAt = ExpiresAt(ttlMs, t)],
                   c.head, c.tail),
             key)
    ELSE EvictIfOver(InsertNew(c, key, value, ExpiresAt(ttlMs, t)))

invalidateCache(c, key) == IF key \notin DOMAIN c.map THEN c ELSE unlink(c, key)

clearAllCache == Cache(EmptyMap, NoKey, NoKey)

\* The history of uses: key put first when used, and the keys that left the
\* cache dropped.
Used(keys, key, wasUsed, map) ==
    LET Cached(k) == k \in DOMAIN map
    IN  SelectSeq(IF wasUsed THEN <<key>> \o SelectSeq(keys, LAMBDA k : k # key)
                  ELSE keys,
                  Cached)

\* A call leaves this cache.
Leaves(c) ==
    /\ cacheMap' = c.map
    /\ head' = c.head
    /\ tail' = c.tail

\* The calls, each at a reading t of performance.now() not before the latest.
GetCache ==
    /\ \E key \in CacheKeys, t \in now..MaxTime :
           \E r \in {getCache(Cache(cacheMap, head, tail), key, t)} :
               /\ Leaves(r.cache)
               /\ now' = t
               /\ call' = [op |-> "getCache", key |-> key, ret |-> r.ret,
                           dropped |-> DOMAIN cacheMap \ DOMAIN r.cache.map]
               /\ uses' = Used(uses, key, r.ret # "null", r.cache.map)
    /\ UNCHANGED zeroTtl
    /\ UNCHANGED domVars

SetCache ==
    /\ \E key \in CacheKeys, value \in CacheValues, ttlMs \in TtlArgs,
          t \in now..MaxTime :
           \E c \in {setCache(Cache(cacheMap, head, tail), key, value, ttlMs, t)} :
               /\ Leaves(c)
               /\ now' = t
               /\ call' = [op |-> "setCache", key |-> key, ret |-> "undefined",
                           dropped |-> DOMAIN cacheMap \ DOMAIN c.map]
               /\ uses' = Used(uses, key, TRUE, c.map)
               /\ zeroTtl' = IF ttlMs.given /\ ttlMs.ms > 0 THEN zeroTtl \ {key}
                             ELSE zeroTtl \cup {key}
    /\ UNCHANGED domVars

InvalidateCache ==
    /\ \E key \in CacheKeys :
           \E c \in {invalidateCache(Cache(cacheMap, head, tail), key)} :
               /\ Leaves(c)
               /\ call' = [op |-> "invalidateCache", key |-> key, ret |-> "undefined",
                           dropped |-> DOMAIN cacheMap \ DOMAIN c.map]
               /\ uses' = Used(uses, key, FALSE, c.map)
    /\ UNCHANGED <<now, zeroTtl>>
    /\ UNCHANGED domVars

ClearAllCache ==
    /\ Leaves(clearAllCache)
    /\ call' = [op |-> "clearAllCache", key |-> NoKey, ret |-> "undefined",
                dropped |-> DOMAIN cacheMap]
    /\ uses' = <<>>
    /\ UNCHANGED <<now, zeroTtl>>
    /\ UNCHANGED domVars

\* The cache when the module is loaded.
CacheAtLoad ==
    /\ cacheMap = EmptyMap
    /\ head = NoKey
    /\ tail = NoKey
    /\ now = 0
    /\ call = [op |-> "none", key |-> NoKey, ret |-> "undefined", dropped |-> {}]
    /\ uses = <<>>
    /\ zeroTtl = {}

----
\* The caller: diff, then apply on the live tree of the first argument, then undo.

Diff ==
    /\ pc = "start"
    /\ \E r \in {diff(inA, inB, opts)} :
           /\ objA' = r.objA
           /\ objB' = r.objB
           /\ script' = r.diffs
           /\ inA' = r.argA
           /\ inB' = r.argB
    /\ pc' = "diffed"
    /\ UNCHANGED <<opts, live, nextId, todo, applied, undone>>
    /\ UNCHANGED cacheVars

\* apply(element, diffs) up to its loop.
ApplyStart ==
    /\ pc = "diffed"
    /\ todo' = script
    /\ pc' = IF script = <<>> THEN "applied" ELSE "applying"
    /\ applied' = TRUE
    /\ UNCHANGED <<inA, inB, opts, objA, objB, script, live, nextId, undone>>
    /\ UNCHANGED cacheVars

\* The loop of apply without its return at a failed operation.
ApplyStepNoReturn ==
    /\ pc = "applying"
    /\ \E r \in {applyDiff(live, Head(todo), opts, nextId)} :
           /\ live' = r.tree
           /\ nextId' = r.next
           /\ applied' = (applied /\ r.ok)
           /\ todo' = Tail(todo)
           /\ pc' = IF Tail(todo) # <<>> THEN "applying" ELSE "applied"
    /\ UNCHANGED <<inA, inB, opts, objA, objB, script, undone>>
    /\ UNCHANGED cacheVars

\* One iteration of the loop of apply: the next operation, and the return
\* when it fails or was the last one.
ApplyStep ==
    /\ pc = "applying"
    /\ \E r \in {applyDiff(live, Head(todo), opts, nextId)} :
           /\ live' = r.tree
           /\ nextId' = r.next
           /\ applied' = r.ok
           /\ todo' = IF r.ok THEN Tail(todo) ELSE todo
           /\ pc' = IF r.ok /\ Tail(todo) # <<>> THEN "applying" ELSE "applied"
    /\ UNCHANGED <<inA, inB, opts, objA, objB, script, undone>>
    /\ UNCHANGED cacheVars

\* undo(element, diffs) up to the loop of the apply it calls.
UndoStart ==
    /\ pc = "applied"
    /\ applied
    /\ todo' = invertedDiffs(script)
    /\ pc' = IF script = <<>> THEN "undone" ELSE "undoing"
    /\ undone' = TRUE
    /\ UNCHANGED <<inA, inB, opts, objA, objB, script, live, nextId, applied>>
    /\ UNCHANGED cacheVars

UndoStep ==
    /\ pc = "undoing"
    /\ \E r \in {applyDiff(live, Head(todo), opts, nextId)} :
           /\ live' = r.tree
           /\ nextId' = r.next
           /\ undone' = r.ok
           /\ todo' = IF r.ok THEN Tail(todo) ELSE todo
           /\ pc' = IF r.ok /\ Tail(todo) # <<>> THEN "undoing" ELSE "undone"
    /\ UNCHANGED <<inA, inB, opts, objA, objB, script, applied>>
    /\ UNCHANGED cacheVars

Next == Diff \/ ApplyStart \/ ApplyStep \/ UndoStart \/ UndoStep

\* The state before diff is called on the arguments a and b with options o.
Start(a, b, o) ==
    /\ inA = a
    /\ inB = b
    /\ opts = o
    /\ objA = NoNode
    /\ objB = NoNode
    /\ script = <<>>
    /\ live = materialize(a, o).node
    /\ nextId = materialize(a, o).next
    /\ todo = <<>>
    /\ pc = "start"
    /\ applied = FALSE
    /\ undone = FALSE
    /\ CacheAtLoad

----
\* The inputs the specifications draw from.

SeqsUpTo(S, n) == UNION {[1..k -> S] : k \in 0..n}

\* Longest child list of a tree.
MaxKids == 2

\* Children: an empty element, a keyed element with text, two texts, a comment.
Kids ==
    {VElement("P", <<>>, <<>>),
     VElement("P", <<<<"id", "a">>>>, <<VText("s")>>),
     VText("s"), VText("t"), VComment("c")}

Trees == {VElement("DIV", <<>>, kids) : kids \in SeqsUpTo(Kids, MaxKids)}

\* Any two trees, as VirtualNodes, under the default options.
Init ==
    \E a \in Trees, b \in Trees :
        Start(NodeOf(a), NodeOf(b), DEFAULT_OPTIONS)

Spec == Init /\ [][Next]_vars

\* Longest tag sequence of a markup string.
MaxTags == 3

MarkupTags ==
    {Tag("open", "div", <<>>, ""), Tag("open", "p", <<<<"id", "a">>>>, "s"),
     Tag("close", "div", <<>>, ""), Tag("close", "p", <<>>, "&amp;"),
     Tag("open", "br", <<>>, ""), CommentTag("c", "")}

Markups ==
    {[hasLead |-> FALSE, lead |-> "", tags |-> t] : t \in SeqsUpTo(MarkupTags, MaxTags)}
    \cup {[hasLead |-> TRUE, lead |-> "s", tags |-> t] : t \in SeqsUpTo(MarkupTags, 1)}

Fragments == {VFragment(kids) : kids \in SeqsUpTo(Kids, MaxKids)}

\* One tree X given twice, as markup, as a live tree or as a VirtualNode; the
\* two arguments are converted independently by diff.
InitSame ==
    \E x \in {FromString(m) : m \in Markups}
             \cup {NodeOf(v) : v \in Trees \cup Fragments}
             \cup {FromVirtual(v) : v \in Trees \cup Fragments} :
        Start(x, x, DEFAULT_OPTIONS)

SpecSame == InitSame /\ [][Next]_vars

\* Longest list of keyed siblings.
MaxKeyed == 3

KeyVals == {"a", "b", "c", "d"}

\* A keyed child: keyed by id, by data-key, or by id among other attributes.
KeyedChild(k, variant) ==
    CASE variant = "id" -> VElement("LI", <<<<"id", k>>>>, <<>>)
      [] variant = "data-key" ->
            VElement("LI", <<<<"data-key", k>>, <<"id", "i">>>>, <<>>)
      [] OTHER ->
            VElement("LI", <<<<"id", k>>, <<"class", "x">>, <<"title", "t">>,
                             <<"lang", "en">>>>, <<>>)

KeyLists == {ks \in SeqsUpTo(KeyVals, MaxKeyed) :
                \A i, j \in 1..Len(ks) : i # j => ks[i] # ks[j]}

Reorderings(n) == {f \in [1..n -> 1..n] : \A i, j \in 1..n : i # j => f[i] # f[j]}

KeyedTree(ks, variant) ==
    VElement("DIV", <<>>, [i \in 1..Len(ks) |-> KeyedChild(ks[i], variant)])

\* A list of distinctly keyed siblings and a reordering of it.
InitKeyed ==
    \E ks \in KeyLists, variant \in {"id", "data-key", "rich"} :
        \E f \in Reorderings(Len(ks)) :
            Start(NodeOf(KeyedTree(ks, variant)),
                  NodeOf(KeyedTree([i \in 1..Len(ks) |-> ks[f[i]]], variant)),
                  DEFAULT_OPTIONS)

SpecKeyed == InitKeyed /\ [][Next]_vars

\* Most attributes an element carries.
MaxAttrs == 3

AttrNames == <<"id", "class", "data-new">>

\* The attribute maps over AttrNames, in that order, with values a and b.
AttrMaps ==
    {SelectSeq([i \in 1..Len(AttrNames) |-> <<AttrNames[i], f[i]>>],
               LAMBDA p : p[2] # "undefined") :
        f \in {g \in [1..Len(AttrNames) -> {"undefined", "a", "b"}] :
                  Cardinality({i \in 1..Len(AttrNames) : g[i] # "undefined"}) <= MaxAttrs}}

SkipDiv == <<Sel("tag", "div", "", "")>>

\* Two elements, both DOM nodes or both VirtualNodes, under options that vary
\* the ignore list, the case rule and the skip rule.
InitAttr ==
    \E attrsA \in AttrMaps, attrsB \in AttrMaps, nameA \in {"DIV", "div"},
       ignore \in {{}, {"class"}}, cs \in BOOLEAN,
       skip \in {<<<<>>, CHILDREN>>, <<SkipDiv, CHILDREN>>, <<SkipDiv, FULL>>},
       kind \in {"node", "vnode"} :
        Start(IF kind = "node" THEN NodeOf(VElement(nameA, attrsA, <<>>))
              ELSE FromVirtual(VElement(nameA, attrsA, <<>>)),
              IF kind = "node" THEN NodeOf(VElement("DIV", attrsB, <<VText("s")>>))
              ELSE FromVirtual(VElement("DIV", attrsB, <<VText("s")>>)),
              [DEFAULT_OPTIONS EXCEPT !.skipAttributes = ignore, !.caseSensitive = cs,
                                      !.skipSelector = skip[1], !.skipMode = skip[2]])

SpecAttr == InitAttr /\ [][Next]_vars

\* Longest child list of a tree with skipped elements.
MaxSkipKids == 2

SkipKids ==
    {VElement("SCRIPT", <<>>, <<VText("a")>>),
     VElement("SCRIPT", <<>>, <<VText("b")>>),
     VElement("SCRIPT", <<<<"src", "x">>>>, <<VText("a")>>),
     VElement("P", <<>>, <<>>),
     VComment("c"), VComment("d")}

SkipTrees ==
    {VElement("DIV", <<>>, kids) : kids \in SeqsUpTo(SkipKids, MaxSkipKids)}
    \cup {VFragment(kids) : kids \in SeqsUpTo(SkipKids, MaxSkipKids)}

\* <div><script>a</script></div> and <div><script>b</script></div>
ScriptMarkup(text) ==
    [hasLead |-> FALSE, lead |-> "",
     tags |-> <<Tag("open", "div", <<>>, ""), Tag("open", "script", <<>>, text),
                Tag("close", "script", <<>>, ""), Tag("close", "div", <<>>, "")>>]

SkipScriptStyle == <<Sel("tag", "SCRIPT", "", ""), Sel("tag", "STYLE", "", "")>>

\* Any two trees under skipSelector "SCRIPT, STYLE", in either skip mode.
InitSkip ==
    \E a \in {NodeOf(v) : v \in SkipTrees}
             \cup {FromString(ScriptMarkup(t)) : t \in {"a", "b"}},
       mode \in {CHILDREN, FULL} :
        \E b \in {x \in {NodeOf(v) : v \in SkipTrees}
                        \cup {FromString(ScriptMarkup(t)) : t \in {"a", "b"}} :
                     x.kind = a.kind} :
            Start(a, b, [DEFAULT_OPTIONS EXCEPT !.skipSelector = SkipScriptStyle,
                                                !.skipMode = mode])

SpecSkip == InitSkip /\ [][Next]_vars

\* Longest chain of operations handed to apply as a list.
MaxOps == 3

\* The live tree a given list is applied to:
\* <div><p id="a">s</p>t<!--c--></div>, the properties value, checked and
\* selected of the p being "v", false and false.
GivenChild ==
    [VElement("P", <<<<"id", "a">>>>, <<VText("s")>>) EXCEPT
        !.value = "v", !.checked = "false", !.selected = "false"]

GivenTree == VElement("DIV", <<>>, <<GivenChild, VText("t"), VComment("c")>>)

\* Operations fit for chains: three that resolve in GivenTree, one whose
\* route does not, and an insertion under the root itself.
ChainOps ==
    {[Op(ADD_ATTRIBUTE, <<0>>) EXCEPT !.name = "class", !.value = Str("x")],
     [Op(MODIFY_TEXT, <<1>>) EXCEPT !.oldValue = Str("t"), !.newValue = Str("u")],
     [Op(REMOVE_ELEMENT, <<2>>) EXCEPT !.element = VComment("c")],
     [Op(MODIFY_ATTRIBUTE, <<0, 0, 0>>) EXCEPT
         !.name = "id", !.oldValue = Str("a"), !.newValue = Str("b")],
     [Op(ADD_ELEMENT, <<>>) EXCEPT !.element = VText("n"), !.index = 0]}

\* One operation of every kind, written the way diff writes them, and
\* operations whose route or parent route is not in GivenTree.
GivenOps ==
    ChainOps \cup
    {[Op(ADD_ELEMENT, <<0>>) EXCEPT !.element = VText("n"), !.index = 1],
     [Op(ADD_ELEMENT, <<5>>) EXCEPT !.element = VText("n"), !.index = 0],
     [Op(REMOVE_ELEMENT, <<0>>) EXCEPT !.element = GivenChild],
     [Op(REMOVE_ELEMENT, <<3>>) EXCEPT !.element = VText("t")],
     [Op(RELOCATE_ELEMENT, <<>>) EXCEPT !.from = <<0>>, !.to = <<2>>],
     [Op(RELOCATE_ELEMENT, <<>>) EXCEPT !.from = <<2>>, !.to = <<0>>],
     [Op(RELOCATE_ELEMENT, <<4>>) EXCEPT !.from = <<4, 0>>, !.to = <<4, 1>>],
     [Op(MODIFY_TEXT, <<0, 1>>) EXCEPT !.oldValue = Str("s"), !.newValue = Str("u")],
     [Op(REPLACE_ELEMENT, <<1>>) EXCEPT
         !.oldValue = Obj(VText("t")), !.newValue = Obj(VComment("d"))],
     [Op(REPLACE_ELEMENT, <<1, 0>>) EXCEPT
         !.oldValue = Obj(VText("t")), !.newValue = Obj(VComment("d"))],
     [Op(ADD_ATTRIBUTE, <<1>>) EXCEPT !.name = "class", !.value = Str("x")],
     [Op(REMOVE_ATTRIBUTE, <<0>>) EXCEPT !.name = "id", !.value = Str("a")],
     [Op(MODIFY_ATTRIBUTE, <<0>>) EXCEPT
         !.name = "id", !.oldValue = Str("a"), !.newValue = Str("b")],
     [Op(MODIFY_VALUE, <<0>>) EXCEPT !.oldValue = Str("v"), !.newValue = Str("w")],
     [Op(MODIFY_CHECKED, <<0>>) EXCEPT
         !.oldValue = Bool("false"), !.newValue = Bool("true")],
     [Op(MODIFY_SELECTED, <<0>>) EXCEPT
         !.oldValue = Bool("false"), !.newValue = Bool("true")]}

GivenScripts == SeqsUpTo(ChainOps, MaxOps) \cup {<<op>> : op \in GivenOps}

\* The operations the configured hooks act on; the others find no hook.
HookedActions == {ADD_ATTRIBUTE, REMOVE_ELEMENT, MODIFY_VALUE}

\* preDiffApply: null, or a hook returning true, a truthy value that is not
\* true, undefined, or throwing.  postDiffApply: null or a hook that throws.
PreHooks ==
    {NoHook} \cup {[on |-> TRUE, actions |-> HookedActions, result |-> r] :
                      r \in {"true", "truthy", "undefined", "throw"}}

PostHooks == {NoHook, [on |-> TRUE, actions |-> HookedActions, result |-> "throw"]}

\* The state in which apply is called on the live tree of a with a list that
\* was not computed from that tree (client.ts applies the list the server sent).
StartGiven(a, ops, o) ==
    /\ inA = a
    /\ inB = a
    /\ opts = o
    /\ objA = NoNode
    /\ objB = NoNode
    /\ script = ops
    /\ live = materialize(a, o).node
    /\ nextId = materialize(a, o).next
    /\ todo = <<>>
    /\ pc = "diffed"
    /\ applied = FALSE
    /\ undone = FALSE
    /\ CacheAtLoad

InitGiven ==
    \E ops \in GivenScripts, pre \in PreHooks, post \in PostHooks :
        StartGiven(FromVirtual(GivenTree), ops,
                   [DEFAULT_OPTIONS EXCEPT !.preDiffApply = pre, !.postDiffApply = post])

NextGiven == ApplyStart \/ ApplyStep \/ UndoStart \/ UndoStep

SpecGiven == InitGiven /\ [][NextGiven]_vars

\* Longest child list of a tree diffed under a diff cap.
MaxCapKids == 3

\* Five attributes of one value.
CapAttrs(v) == <<<<"a", v>>, <<"b", v>>, <<"c", v>>, <<"d", v>>, <<"e", v>>>>

CapTrees ==
    {VElement("DIV", attrs, kids) :
        attrs \in {<<>>, CapAttrs("1"), CapAttrs("2")},
        kids \in SeqsUpTo({VText("s"), VText("t")}, MaxCapKids)}

\* Any two such trees under {debug: true, diffcap: 1}.
InitCap ==
    \E a \in CapTrees, b \in CapTrees :
        Start(NodeOf(a), NodeOf(b),
              [DEFAULT_OPTIONS EXCEPT !.debug = TRUE, !.diffcap = 1])

SpecCap == InitCap /\ [][Next]_vars

\* Longest child list of a tree whose script is examined for its order.
MaxOrderKids == 2

\* Children: a keyed element with a text child, the same key with another
\* attribute and no child, and two texts.
OrderKids ==
    {VElement("P", <<<<"id", "a">>>>, <<VText("s")>>),
     VElement("P", <<<<"id", "a">>, <<"class", "x">>>>, <<>>),
     VText("t"), VText("u")}

OrderTree(attrs, kids) == VElement("DIV", attrs, kids)

\* Any two such trees under the default options (no diff cap), the root of
\* the second one with or without one more attribute.
InitOrder ==
    \E ka \in SeqsUpTo(OrderKids, MaxOrderKids),
       kb \in SeqsUpTo(OrderKids, MaxOrderKids),
       attrs \in {<<<<"id", "r">>>>, <<<<"id", "r">>, <<"class", "y">>>>} :
        Start(NodeOf(OrderTree(<<<<"id", "r">>>>, ka)),
              NodeOf(OrderTree(attrs, kb)), DEFAULT_OPTIONS)

SpecOrder == InitOrder /\ [][Next]_vars

\* Longest child list of a tree whose children are paired.
MaxPairKids == 3

\* Children: an element without attributes, the same element with a key, and
\* a text.
PairKids ==
    {VElement("P", <<>>, <<>>), VElement("P", <<<<"id", "a">>>>, <<>>), VText("s")}

PairTrees == {VElement("DIV", <<>>, kids) : kids \in SeqsUpTo(PairKids, MaxPairKids)}

\* Any two such trees with no diffcap configured, debug disabled or enabled,
\* the key attribute listed in skipAttributes or not.
InitPair ==
    \E a \in PairTrees, b \in PairTrees, debug \in BOOLEAN, skip \in {{}, {"id"}} :
        Start(NodeOf(a), NodeOf(b),
              [DEFAULT_OPTIONS EXCEPT !.debug = debug, !.skipAttributes = skip])

SpecPair == InitPair /\ [][Next]_vars

\* Longest child list of a VirtualNode diffed twice.
MaxAgainKids == 2

AgainKids ==
    {VElement("SCRIPT", <<>>, <<VText("a")>>), VElement("SCRIPT", <<>>, <<VText("b")>>),
     VElement("P", <<>>, <<>>)}

AgainTrees == {VElement("DIV", <<>>, kids) : kids \in SeqsUpTo(AgainKids, MaxAgainKids)}

\* No skip rule, or skipSelector "SCRIPT, STYLE" in either skip mode.
SkipOptions ==
    {DEFAULT_OPTIONS} \cup
    {[DEFAULT_OPTIONS EXCEPT !.skipSelector = SkipScriptStyle, !.skipMode = mode] :
        mode \in {CHILDREN, FULL}}

\* A second diff call on the objects the first call was given, under other
\* skip options.
DiffAgain ==
    /\ pc = "diffed"
    /\ \E o \in SkipOptions \ {opts} :
           /\ opts' = o
           /\ \E r \in {diff(inA, inB, o)} :
                  /\ objA' = r.objA
                  /\ objB' = r.objB
                  /\ script' = r.diffs
                  /\ inA' = r.argA
                  /\ inB' = r.argB
    /\ pc' = "rediffed"
    /\ UNCHANGED <<live, nextId, todo, applied, undone>>
    /\ UNCHANGED cacheVars

\* Any two such trees, given as VirtualNodes that carry no skip flag.
InitAgain ==
    \E a \in AgainTrees, b \in AgainTrees, o \in SkipOptions :
        Start(FromVirtual(a), FromVirtual(b), o)

NextAgain == Diff \/ DiffAgain

SpecAgain == InitAgain /\ [][NextAgain]_vars

\* The page cache on its own: the server renders and revalidates pages, no
\* diff engine in use.
NoDiff ==
    /\ inA = FromVirtual(NoNode)
    /\ inB = FromVirtual(NoNode)
    /\ opts = DEFAULT_OPTIONS
    /\ objA = NoNode
    /\ objB = NoNode
    /\ script = <<>>
    /\ live = NoLive
    /\ nextId = 1
    /\ todo = <<>>
    /\ pc = "idle"
    /\ applied = FALSE
    /\ undone = FALSE

InitCache == NoDiff /\ CacheAtLoad

NextCache == GetCache \/ SetCache \/ InvalidateCache \/ ClearAllCache

SpecCache == InitCache /\ [][NextCache]_vars

----
\* Properties.

\* What two live trees are compared by: node kinds, tag names, text,
\* attributes (as a map) and the ordered children.
RECURSIVE Shape(_)
Shape(node) ==
    [nodeType |-> node.nodeType, nodeName |-> node.nodeName, data |-> node.data,
     attributes |-> AttrMap(node.attributes),
     childNodes |-> [i \in 1..Len(node.childNodes) |-> Shape(node.childNodes[i])]]

\* C1: once apply has replayed diff(A, B), in order, on the live tree
\* materialised from A, apply has succeeded and the live tree equals the tree
\* materialised from B in tag names, attributes, text and ordered children.
ApplyYieldsNewTree ==
    pc = "applied" => applied /\ Shape(live) = Shape(materialize(inB, opts).node)

\* The script, replayed by apply on the live tree materialised from A.
Replayed ==
    apply(materialize(inA, opts).node, script, opts, materialize(inA, opts).next)

\* apply succeeds on the script and leaves the tree materialised from B.
ReplayYieldsNewTree ==
    Replayed.ok /\ Shape(Replayed.tree) = Shape(materialize(inB, opts).node)

\* C2: once undo has run, with the same script, on the live tree on which
\* apply replayed diff(A, B) and gave B, undo has succeeded and the live tree
\* equals the tree materialised from A.
UndoYieldsOldTree ==
    (pc = "undone" /\ ReplayYieldsNewTree) =>
        undone /\ Shape(live) = Shape(materialize(inA, opts).node)

\* C3: diff of a tree against an independent conversion of the same tree
\* (markup with one or several top-level nodes, a live tree, a VirtualNode)
\* returns the empty list.
DiffOfSameIsEmpty ==
    (pc # "start" /\ inA = inB) => script = <<>>

\* The children of the two VirtualNode arguments.
\* The trees given to diff: the VirtualNodes themselves, or what nodeToObj
\* reads from the DOM nodes.
OldTree == IF inA.kind = "vnode" THEN inA.vnode ELSE nodeToObj(inA.node, opts)
NewTree == IF inB.kind = "vnode" THEN inB.vnode ELSE nodeToObj(inB.node, opts)

OldChildren == OldTree.childNodes
NewChildren == NewTree.childNodes

\* The new child list is a permutation of the old one, every child carries a
\* key and no two children share one.
PureKeyedReorder ==
    /\ inA.kind = "node" /\ inB.kind = "node"
    /\ Len(OldChildren) = Len(NewChildren)
    /\ {OldChildren[i] : i \in 1..Len(OldChildren)}
          = {NewChildren[i] : i \in 1..Len(NewChildren)}
    /\ \A i \in 1..Len(OldChildren) : getElementKey(OldChildren[i]) # "undefined"
    /\ \A i, j \in 1..Len(OldChildren) :
          i # j => getElementKey(OldChildren[i]) # getElementKey(OldChildren[j])

\* C4: for a pure reorder of distinctly keyed children the script holds
\* RelocateElement operations only.
KeyedReorderOnlyRelocates ==
    (pc # "start" /\ PureKeyedReorder) =>
        \A i \in 1..Len(script) : script[i].action = RELOCATE_ELEMENT

\* The live node materialised from the old child that carries the key.
OldLiveChild(key) ==
    materialize(inA, opts).node.childNodes[
        CHOOSE i \in 1..Len(OldChildren) : getElementKey(OldChildren[i]) = key]

\* C5: applying the script of a pure reorder of distinctly keyed children, a
\* script of RelocateElement operations, to the old live tree succeeds and
\* leaves the children in the order of the new list, each one the live node
\* that carried the key before.
KeyedReorderKeepsNodes ==
    (/\ pc = "applied"
     /\ PureKeyedReorder
     /\ \A i \in 1..Len(script) : script[i].action = RELOCATE_ELEMENT) =>
        /\ applied
        /\ live.childNodes =
              [j \in 1..Len(NewChildren) |-> OldLiveChild(getElementKey(NewChildren[j]))]

AttributeActions == {ADD_ATTRIBUTE, REMOVE_ATTRIBUTE, MODIFY_ATTRIBUTE}

\* The attribute operations of the script that name the key, in script order.
AttributeOpsOn(key) ==
    SelectSeq(script, LAMBDA d : d.action \in AttributeActions /\ d.name = key)

\* The attribute operation the two root elements call for on the key: none for
\* an ignored key or an unchanged one.
ExpectedAttributeOps(key) ==
    LET oldVal == AttrGet(OldTree.attributes, key)
        newVal == AttrGet(NewTree.attributes, key)
    IN  IF key \in opts.skipAttributes \/ oldVal = newVal THEN <<>>
        ELSE IF oldVal = "undefined"
        THEN <<[Op(ADD_ATTRIBUTE, <<>>) EXCEPT !.name = key, !.value = Str(newVal)]>>
        ELSE IF newVal = "undefined"
        THEN <<[Op(REMOVE_ATTRIBUTE, <<>>) EXCEPT !.name = key, !.value = Str(oldVal)]>>
        ELSE <<[Op(MODIFY_ATTRIBUTE, <<>>) EXCEPT
                  !.name = key, !.oldValue = Str(oldVal), !.newValue = Str(newVal)]>>

\* diff has compared two elements of the same normalised tag name, neither one
\* excluded as a whole by the skip rule.
ComparedElements ==
    /\ pc # "start"
    /\ inA.kind # "string" /\ inB.kind # "string"
    /\ OldTree.nodeType = ELEMENT /\ NewTree.nodeType = ELEMENT
    /\ normalizeNodeName(OldTree.nodeName, opts.caseSensitive)
          = normalizeNodeName(NewTree.nodeName, opts.caseSensitive)
    /\ ~objA.skipFull /\ ~objB.skipFull

\* C6: when diff compares two elements of the same normalised tag name, the
\* script holds, for every attribute key outside the ignore list whose presence
\* or value differs, exactly one attribute operation (AddAttribute for a key of
\* the new element only, RemoveAttribute for a key of the old element only,
\* ModifyAttribute for a key of both), no attribute operation on any other key,
\* and no ReplaceElement.
AttributeDiffExact ==
    ComparedElements =>
        /\ \A i \in 1..Len(script) :
              /\ script[i].action # REPLACE_ELEMENT
              /\ script[i].action \in AttributeActions =>
                    HasAttr(OldTree.attributes \o NewTree.attributes, script[i].name)
        /\ \A i \in 1..Len(AttrNames) :
              AttributeOpsOn(AttrNames[i]) = ExpectedAttributeOps(AttrNames[i])

\* C6, an instance: id="a" class="a" against id="a" class="b" data-new="a" gives
\* ModifyAttribute on class, AddAttribute on data-new, then the new child.
AttributeDiffExample ==
    /\ ComparedElements
    /\ opts.skipAttributes = {}
    /\ OldTree.attributes = <<<<"id", "a">>, <<"class", "a">>>>
    /\ NewTree.attributes = <<<<"id", "a">>, <<"class", "b">>, <<"data-new", "a">>>>
    /\ Len(script) = 3
    /\ script[1].action = MODIFY_ATTRIBUTE /\ script[1].name = "class"
    /\ script[2].action = ADD_ATTRIBUTE /\ script[2].name = "data-new"
    /\ script[3].action = ADD_ELEMENT

\* The operations of the script on the child at 0-based position i.
OpsOnChild(i) ==
    SelectSeq(script, LAMBDA d : d.route = <<i>> \/ d.from = <<i>>)

\* C7: when the children at the same position of the old and the new tree are
\* Text nodes of different data, the script's only operation on that node is
\* one ModifyText at its route with the old and the new string.
TextChangeIsModifyText ==
    (pc # "start" /\ inA.kind = "node" /\ inB.kind = "node") =>
        \A i \in 0..(Len(OldChildren) - 1) :
            (/\ i < Len(NewChildren)
             /\ At(OldChildren, i).nodeType = TEXT
             /\ At(NewChildren, i).nodeType = TEXT
             /\ At(OldChildren, i).data # At(NewChildren, i).data)
            => OpsOnChild(i) =
                  <<[Op(MODIFY_TEXT, <<i>>) EXCEPT
                       !.oldValue = Str(At(OldChildren, i).data),
                       !.newValue = Str(At(NewChildren, i).data)]>>

\* A tree without what lies below the elements the skip selector matches.
RECURSIVE BelowMatchedRemoved(_)
BelowMatchedRemoved(node) ==
    IF matchesSelector(node, opts.skipSelector)
    THEN [node EXCEPT !.childNodes = <<>>]
    ELSE [node EXCEPT !.childNodes =
             [i \in 1..Len(node.childNodes) |-> BelowMatchedRemoved(node.childNodes[i])]]

\* C8: with a skipSelector, two trees that differ only below the elements it
\* matches give the empty script, in either skip mode.
SkippedSubtreeIsInvisible ==
    (/\ pc # "start"
     /\ opts.skipSelector # <<>>
     /\ BelowMatchedRemoved(toObj(inA, opts).obj) = BelowMatchedRemoved(toObj(inB, opts).obj))
    => script = <<>>

\* A tree without the attributes and the contents of the elements the skip
\* selector matches.
RECURSIVE MatchedBlanked(_)
MatchedBlanked(node) ==
    IF matchesSelector(node, opts.skipSelector)
    THEN [node EXCEPT !.attributes = <<>>, !.childNodes = <<>>]
    ELSE [node EXCEPT !.childNodes =
             [i \in 1..Len(node.childNodes) |-> MatchedBlanked(node.childNodes[i])]]

\* C9: in skip mode "full", two trees (here: with an element as root) that
\* differ only in the attributes or the contents of the elements the skip rule
\* matches give the empty script: no operation targets a matched node.
FullSkipIsInvisible ==
    (/\ pc # "start"
     /\ objA.nodeType = ELEMENT /\ objB.nodeType = ELEMENT
     /\ opts.skipSelector # <<>>
     /\ opts.skipMode = FULL
     /\ MatchedBlanked(toObj(inA, opts).obj) = MatchedBlanked(toObj(inB, opts).obj))
    => script = <<>>

\* A tree without the data of its comment nodes.
RECURSIVE CommentsBlanked(_)
CommentsBlanked(node) ==
    IF node.nodeType = COMMENT THEN [node EXCEPT !.data = ""]
    ELSE [node EXCEPT !.childNodes =
             [i \in 1..Len(node.childNodes) |-> CommentsBlanked(node.childNodes[i])]]

\* C10: two trees (here: with an element as root) that differ only in the
\* data of comment nodes, at any depth, give the empty script.
CommentChangeIsInvisible ==
    (/\ pc # "start"
     /\ objA.nodeType = ELEMENT /\ objB.nodeType = ELEMENT
     /\ CommentsBlanked(toObj(inA, opts).obj) = CommentsBlanked(toObj(inB, opts).obj))
    => script = <<>>

----
\* Properties of apply on a given list of operations.

\* The operations apply has gone past, and the call of apply on them alone
\* from the tree apply was handed.
Executed == SubSeq(script, 1, Len(script) - Len(todo))
ExecutedRun ==
    apply(materialize(inA, opts).node, Executed, opts, materialize(inA, opts).next)

\* The live tree is what applyDiff leaves of tree when it fails on op.
FailedOn(tree, op, id) ==
    \E r \in {applyDiff(tree, op, opts, id)} : ~r.ok /\ live = r.tree

\* C11: when apply returns, the operations it has not gone past are a suffix
\* of its list; those before it all succeeded, in list order, and their
\* effects are in the live tree; it returns true exactly when nothing is
\* left, and false with the first operation left being one that fails on the
\* tree the earlier ones produced, none after it having been executed.
ApplyStopsAtFirstFailure ==
    pc = "applied" =>
        /\ Len(todo) <= Len(script)
        /\ todo = SubSeq(script, Len(script) - Len(todo) + 1, Len(script))
        /\ applied <=> todo = <<>>
        /\ \E run \in {ExecutedRun} :
               /\ run.ok
               /\ applied => live = run.tree
               /\ ~applied => FailedOn(run.tree, Head(todo), run.next)

\* apply has returned false on the second of three operations, the first one
\* having changed the live tree.
ApplyStoppedMidList ==
    /\ pc = "applied"
    /\ ~applied
    /\ Len(script) = 3
    /\ Len(todo) = 2
    /\ live # materialize(inA, opts).node

\* The route names a child index that tree does not have at some depth.
RECURSIVE RouteMisses(_, _)
RouteMisses(tree, route) ==
    /\ route # <<>>
    /\ \/ route[1] < 0
       \/ route[1] >= Len(tree.childNodes)
       \/ RouteMisses(tree.childNodes[route[1] + 1], Tail(route))

\* apply, or the apply undo calls, is at an operation.
AtOperation == pc \in {"applying", "undoing"}

\* apply returns false at this step, the live tree being as it was.
ReturnsFalseUnchanged ==
    /\ live' = live
    /\ pc = "applying" => pc' = "applied" /\ ~applied'
    /\ pc = "undoing" => pc' = "undone" /\ ~undone'

\* An AddElement with the empty route, an element to insert and no hook that
\* throws succeeds on a root that takes children.
AddToRootSucceeds ==
    (/\ pc = "applying"
     /\ Head(todo).action = ADD_ELEMENT
     /\ Head(todo).route = <<>>
     /\ Head(todo).element # NoNode
     /\ CanHaveChildren(live)
     /\ HookResult(opts.preDiffApply, Head(todo)) # "throw"
     /\ HookResult(opts.postDiffApply, Head(todo)) # "throw")
    => applied'

\* C12 as stated: an operation whose route (for AddElement: parent route) does
\* not resolve in the live tree changes nothing and makes apply return false,
\* and an AddElement with the empty route does not fail for its route.
UnresolvedRouteFails ==
    [][/\ (AtOperation /\ RouteMisses(live, Head(todo).route)) => ReturnsFalseUnchanged
       /\ AddToRootSucceeds]_vars

\* C12, amended: the same, for the operations preDiffApply does not return
\* true for; one it returns true for counts as successful whatever its route.
UnresolvedRouteFailsUnlessVetoed ==
    [][/\ (/\ AtOperation
           /\ RouteMisses(live, Head(todo).route)
           /\ HookResult(opts.preDiffApply, Head(todo)) # "true")
          => ReturnsFalseUnchanged
       /\ (/\ AtOperation
           /\ RouteMisses(live, Head(todo).route)
           /\ HookResult(opts.preDiffApply, Head(todo)) = "true")
          => live' = live /\ todo' = Tail(todo)
       /\ AddToRootSucceeds]_vars

\* apply has returned false at an operation whose route is not in the live
\* tree, the operation before it having changed that tree.
UnresolvedRouteFailed ==
    /\ pc = "applied"
    /\ ~applied
    /\ todo # <<>>
    /\ Len(todo) < Len(script)
    /\ RouteMisses(live, Head(todo).route)
    /\ live # materialize(inA, opts).node

\* Shape and, with it, the form properties of every node.
RECURSIVE ShapeAndValues(_)
ShapeAndValues(node) ==
    [shape |-> Shape(node), value |-> node.value, checked |-> node.checked,
     selected |-> node.selected,
     childNodes |-> [i \in 1..Len(node.childNodes) |->
                        ShapeAndValues(node.childNodes[i])]]

\* apply has executed one operation and undo its inverse, no hook configured.
OneOperationUndone ==
    /\ pc = "undone"
    /\ Len(script) = 1
    /\ ~opts.preDiffApply.on
    /\ ~opts.postDiffApply.on

\* C13: an operation that apply executed successfully, followed by its
\* inverse (undo of the one-operation list), leaves the live tree as it was
\* before the operation: same nodes kinds, names, text, attributes, form
\* properties and ordered children.
InverseRestores ==
    OneOperationUndone =>
        undone /\ ShapeAndValues(live) = ShapeAndValues(materialize(inA, opts).node)

\* preDiffApply threw at the operation apply stopped at.
PreHookThrew ==
    /\ todo # <<>>
    /\ HookResult(opts.preDiffApply, Head(todo)) = "throw"

\* postDiffApply threw at the operation apply stopped at: the hook throws
\* for it and, without the hook, applyDiff succeeds on it.
PostHookThrew ==
    /\ todo # <<>>
    /\ HookResult(opts.postDiffApply, Head(todo)) = "throw"
    /\ \E run \in {ExecutedRun} :
           applyDiff(run.tree, Head(todo), [opts EXCEPT !.postDiffApply = NoHook],
                     run.next).ok

\* C14: apply never returns (with false) at an operation on which
\* preDiffApply or postDiffApply threw: the exception leaves apply uncaught.
HookExceptionPropagates ==
    (pc = "applied" /\ ~applied) => ~PreHookThrew /\ ~PostHookThrew

\* C15: an operation for which preDiffApply returns a truthy value leaves the
\* live tree as it is, counts as successful, and apply goes on with the next
\* operation (or returns true when it was the last).
TruthyPreHookSkips ==
    [][(/\ AtOperation
        /\ HookResult(opts.preDiffApply, Head(todo)) \in {"true", "truthy"})
       => /\ live' = live
          /\ todo' = Tail(todo)
          /\ pc = "applying" => applied'
          /\ pc = "undoing" => undone']_vars

----
\* Properties of the diff cap.

\* The script diff gives for the same arguments with debug off (no cap).
Uncapped == diff(inA, inB, [opts EXCEPT !.debug = FALSE]).diffs

\* C16: under {debug: true, diffcap: 1}, a pair of trees whose uncapped
\* script has 5 operations gets a script of fewer than 5 operations.
CapCutsScript ==
    (pc # "start" /\ opts.debug /\ opts.diffcap = 1 /\ Len(Uncapped) = 5)
        => Len(script) < 5

----
\* Properties of the order of the script.

IsPrefix(r, route) == Len(r) <= Len(route) /\ SubSeq(route, 1, Len(r)) = r

\* The part an operation has in the script of the element pair at route r:
\* 1 the pair's own attribute and value operations, 2 the relocation of a
\* matched pair of children or an operation of its recursive diff, 3 the
\* removal of a child, 4 the insertion of a child, 0 no part.
PartOf(op, r) ==
    IF op.route = r /\ op.action \in
           {ADD_ATTRIBUTE, REMOVE_ATTRIBUTE, MODIFY_ATTRIBUTE, MODIFY_VALUE,
            MODIFY_CHECKED, MODIFY_SELECTED}
    THEN 1
    ELSE IF op.route = r /\ op.action = RELOCATE_ELEMENT THEN 2
    ELSE IF op.route = r /\ op.action = ADD_ELEMENT THEN 4
    ELSE IF op.action = REMOVE_ELEMENT /\ Len(op.route) = Len(r) + 1
            /\ IsPrefix(r, op.route)
    THEN 3
    ELSE IF Len(op.route) > Len(r) /\ IsPrefix(r, op.route) THEN 2
    ELSE 0

IsRelocationAt(op, r) == op.route = r /\ op.action = RELOCATE_ELEMENT

\* The old index of the child of the pair at r that an operation of part 2
\* or 3 is about.
OldIndexOf(op, r) ==
    IF IsRelocationAt(op, r) THEN op.from[Len(r) + 1] ELSE op.route[Len(r) + 1]

\* Operation a may stand before operation b in the script of the pair at r.
MayPrecede(a, b, r) ==
    \/ PartOf(a, r) = 0
    \/ PartOf(b, r) = 0
    \/ PartOf(a, r) < PartOf(b, r)
    \/ /\ PartOf(a, r) = 1
       /\ PartOf(b, r) = 1
    \/ /\ PartOf(a, r) = 2
       /\ PartOf(b, r) = 2
       /\ OldIndexOf(a, r) <= OldIndexOf(b, r)
       /\ OldIndexOf(a, r) = OldIndexOf(b, r) => ~IsRelocationAt(b, r)
    \/ /\ PartOf(a, r) = 3
       /\ PartOf(b, r) = 3
       /\ OldIndexOf(a, r) > OldIndexOf(b, r)
    \/ /\ PartOf(a, r) = 4
       /\ PartOf(b, r) = 4
       /\ a.index < b.index

\* The routes of the element pairs of the inputs: the root and its children.
PairRoutes == {<<>>} \cup {<<i>> : i \in 0..Len(OldTree.childNodes)}

\* C20: without a diff cap, in the script of diff the operations of every
\* element pair stand in this order: its own attribute and value operations;
\* then, by ascending old index, the relocation of each matched pair of
\* children followed by the operations of its recursive diff; then the
\* RemoveElement operations by descending old index; then the AddElement
\* operations by ascending new index.
EmissionOrder ==
    (pc # "start" /\ ~opts.debug) =>
        \A r \in PairRoutes :
            \A i \in 1..Len(script), j \in 1..Len(script) :
                i < j => MayPrecede(script[i], script[j], r)

\* A script with all the parts of the root pair: an own operation, a
\* relocation followed by an operation of the relocated pair, a removal and
\* an insertion.
ScriptWithAllParts ==
    /\ pc = "diffed"
    /\ \E i \in 1..Len(script) : PartOf(script[i], <<>>) = 1
    /\ \E i \in 1..Len(script) :
           /\ i < Len(script)
           /\ IsRelocationAt(script[i], <<>>)
           /\ PartOf(script[i + 1], <<>>) = 2
           /\ ~IsRelocationAt(script[i + 1], <<>>)
           /\ OldIndexOf(script[i + 1], <<>>) = OldIndexOf(script[i], <<>>)
    /\ \E i \in 1..Len(script) : PartOf(script[i], <<>>) = 3
    /\ \E i \in 1..Len(script) : PartOf(script[i], <<>>) = 4

----
\* Properties of the page cache.

\* The list from head along next, at most n nodes of it.
RECURSIVE ListFrom(_, _)
ListFrom(k, n) ==
    IF k = NoKey \/ n = 0 THEN <<>> ELSE <<k>> \o ListFrom(cacheMap[k].next, n - 1)

\* The list holds exactly the keys of the map, each once, prev mirrors next,
\* head and tail are its ends, and it is in the order of the latest uses.
ListMatchesMap ==
    \E list \in {ListFrom(head, Cardinality(DOMAIN cacheMap) + 1)} :
        /\ Len(list) = Cardinality(DOMAIN cacheMap)
        /\ {list[i] : i \in 1..Len(list)} = DOMAIN cacheMap
        /\ tail = IF list = <<>> THEN NoKey ELSE list[Len(list)]
        /\ \A i \in 1..Len(list) :
               cacheMap[list[i]].prev = IF i = 1 THEN NoKey ELSE list[i - 1]
        /\ list = uses

\* C17: a getCache of a key whose latest setCache had ttl 0 or no ttl
\* returns null, at whatever time it is called.
NoTtlNeverServed ==
    (call.op = "getCache" /\ call.key \in zeroTtl) => call.ret = "null"

\* getCache was called, after other calls and later in time, for a key the
\* cache holds from a setCache without ttl.
NoTtlEntryAsked ==
    /\ call.op = "getCache"
    /\ call.key \in zeroTtl
    /\ call.key \in DOMAIN cacheMap
    /\ call.key # head
    /\ now > 0

\* C18: the page cache never holds more than MAX_CACHE_ENTRIES entries.
CacheBounded == Cardinality(DOMAIN cacheMap) <= MAX_CACHE_ENTRIES

\* setCache has put a new key into a full cache, which is full again.
CacheFullAfterInsert ==
    /\ call.op = "setCache"
    /\ call.dropped # {}
    /\ Cardinality(DOMAIN cacheMap) = MAX_CACHE_ENTRIES

\* C19: a setCache of a new key into a cache holding MAX_CACHE_ENTRIES
\* entries takes out exactly one entry, the one whose latest use (a setCache
\* of it or a getCache that returned its value) lies furthest back, and
\* keeps the new key; a setCache of a key the cache holds takes out nothing.
EvictsLeastRecentlyUsed ==
    [][call'.op = "setCache" =>
          /\ (/\ call'.key \notin DOMAIN cacheMap
              /\ Cardinality(DOMAIN cacheMap) = MAX_CACHE_ENTRIES)
             => DOMAIN cacheMap' =
                    (DOMAIN cacheMap \ {uses[Len(uses)]}) \cup {call'.key}
          /\ call'.key \in DOMAIN cacheMap => DOMAIN cacheMap' = DOMAIN cacheMap]_vars

\* setCache has taken one entry out for a new key, which is now the head of
\* a full cache.
EvictedForNewKey ==
    /\ call.op = "setCache"
    /\ Cardinality(call.dropped) = 1
    /\ call.key \notin call.dropped
    /\ call.key = head
    /\ Len(uses) = MAX_CACHE_ENTRIES

\* C30: the list from head along next holds exactly the keys of the map,
\* each once; prev and next mirror each other, head has no prev and tail no
\* next; head and tail are undefined exactly when the map is empty.
LinkedListWellFormed ==
    \E list \in {ListFrom(head, Cardinality(DOMAIN cacheMap) + 1)} :
        /\ Len(list) = Cardinality(DOMAIN cacheMap)
        /\ {list[i] : i \in 1..Len(list)} = DOMAIN cacheMap
        /\ \A i \in 1..Len(list) :
               /\ cacheMap[list[i]].key = list[i]
               /\ cacheMap[list[i]].prev = IF i = 1 THEN NoKey ELSE list[i - 1]
               /\ cacheMap[list[i]].next = IF i = Len(list) THEN NoKey ELSE list[i + 1]
        /\ head = IF list = <<>> THEN NoKey ELSE list[1]
        /\ tail = IF list = <<>> THEN NoKey ELSE list[Len(list)]
        /\ (head = NoKey) <=> (cacheMap = EmptyMap)
        /\ (tail = NoKey) <=> (cacheMap = EmptyMap)

\* getCache has served the entry that was the tail of a full list and moved
\* it to the head.
TailMovedToFront ==
    /\ call.op = "getCache"
    /\ call.ret # "null"
    /\ head = call.key
    /\ tail # head
    /\ Cardinality(DOMAIN cacheMap) = MAX_CACHE_ENTRIES
    /\ uses[1] = call.key

----
\* Properties of the replay of a script of diff.

\* C28: apply returns true on the script of diff(A, B), replayed on the live
\* tree materialised from A.
ReplaySucceeds == pc = "applied" => applied

\* The route by which an operation names the old-tree node it was computed
\* for: from for a relocation, else route (for AddElement the parent's).
OldRouteOf(op) == IF op.action = RELOCATE_ELEMENT THEN op.from ELSE op.route

\* C21: at the moment apply executes an operation of diff(A, B), its route
\* resolves in the live tree to the node that stood at that route in the
\* tree materialised from A, the node the operation was computed for.
RouteResolvesToOldNode ==
    pc = "applying" =>
        getNodeByRoute(live, OldRouteOf(Head(todo))).nid =
            getNodeByRoute(materialize(inA, opts).node, OldRouteOf(Head(todo))).nid

\* The identities of the children of the node at route in tree, in order,
\* the node nid left out.
OthersAt(tree, route, nid) ==
    LET kids == getNodeByRoute(tree, route).childNodes
    IN  SelectSeq([i \in 1..Len(kids) |-> kids[i].nid], LAMBDA n : n # nid)

\* apply executes a RelocateElement, which succeeds by its default action.
RelocationDone ==
    /\ pc = "applying"
    /\ Head(todo).action = RELOCATE_ELEMENT
    /\ HookResult(opts.preDiffApply, Head(todo)) # "true"
    /\ todo' = Tail(todo)

\* C24: once a RelocateElement has been applied successfully, the node that
\* was at route from is at route to, and the other children of the parent
\* are in the order they were in.
RelocationReachesTo ==
    [][RelocationDone =>
          /\ getNodeByRoute(live', Head(todo).to).nid =
                 getNodeByRoute(live, Head(todo).from).nid
          /\ OthersAt(live', Head(todo).route,
                      getNodeByRoute(live, Head(todo).from).nid)
             = OthersAt(live, Head(todo).route,
                        getNodeByRoute(live, Head(todo).from).nid)]_vars

----
\* The pairs the first pass of diffChildren makes for the children of the two
\* roots of the last diff call.
RootPairs(oldChildren, newChildren) ==
    findMatches(oldChildren, newChildren, 0, ChildState(0), opts).matches

Paired(matches, i, j) ==
    \E m \in 1..Len(matches) : matches[m].oldIndex = i /\ matches[m].newIndex = j

\* No two children of the list share a key.
KeysUnique(children) ==
    \A i, j \in 1..Len(children) :
        (i # j /\ getElementKey(children[i]) # "undefined")
            => getElementKey(children[i]) # getElementKey(children[j])

\* C22: an old child and a new child that share a non-null key, unique among
\* the siblings of each list, are paired with each other.
SameKeyPaired ==
    (pc = "diffed" /\ KeysUnique(objA.childNodes) /\ KeysUnique(objB.childNodes)) =>
        \E matches \in {RootPairs(objA.childNodes, objB.childNodes)} :
            \A i \in 0..(Len(objA.childNodes) - 1), j \in 0..(Len(objB.childNodes) - 1) :
                (/\ getElementKey(At(objA.childNodes, i)) # "undefined"
                 /\ getElementKey(At(objA.childNodes, i))
                        = getElementKey(At(objB.childNodes, j)))
                    => Paired(matches, i, j)

\* The old (new) child indices no pair holds.
UnpairedOld(matches, oldChildren) ==
    {i \in 0..(Len(oldChildren) - 1) : \A m \in 1..Len(matches) : matches[m].oldIndex # i}

UnpairedNew(matches, newChildren) ==
    {j \in 0..(Len(newChildren) - 1) : \A m \in 1..Len(matches) : matches[m].newIndex # j}

\* The new child is a candidate for the old one: same non-null key, or a
\* similarity above 0.5.
Qualifies(oldChild, newChild) ==
    \/ /\ getElementKey(oldChild) # "undefined"
       /\ getElementKey(oldChild) = getElementKey(newChild)
    \/ ScoreGt(calculateSimilarity(oldChild, newChild, opts), <<1, 2>>)

\* C23: an old child is left unmatched only if no unused new child qualifies:
\* no old child without a pair has a candidate among the new children
\* without a pair.
UnmatchedHasNoCandidate ==
    pc = "diffed" =>
        \E matches \in {RootPairs(objA.childNodes, objB.childNodes)} :
            \A i \in UnpairedOld(matches, objA.childNodes),
               j \in UnpairedNew(matches, objB.childNodes) :
                ~Qualifies(At(objA.childNodes, i), At(objB.childNodes, j))

\* C27: with no diffcap configured, diff returns with debug enabled the script
\* it returns with debug disabled.
DebugKeepsScript ==
    (pc = "diffed" /\ opts.diffcap = Infinity) => script = Uncapped

\* How many pairs hold the old (new) child index.
PairsOfOld(matches, i) == Cardinality({m \in 1..Len(matches) : matches[m].oldIndex = i})
PairsOfNew(matches, j) == Cardinality({m \in 1..Len(matches) : matches[m].newIndex = j})

\* How many RemoveElement operations of the script target child i of the
\* root, and how many AddElement operations carry child j of the new root.
RemovalsOf(i) ==
    Cardinality({k \in 1..Len(script) :
        script[k].action = REMOVE_ELEMENT /\ script[k].route = <<i>>})

AdditionsOf(j) ==
    Cardinality({k \in 1..Len(script) :
        /\ script[k].action = ADD_ELEMENT
        /\ script[k].route = <<>>
        /\ script[k].index = j})

\* C29: no child index occurs in two pairs and, no diffcap being configured,
\* every old child is in one pair or removed by one RemoveElement, never
\* both, and every new child is in one pair or added by one AddElement.
PairsPartitionChildren ==
    (pc = "diffed" /\ opts.diffcap = Infinity) =>
        \E matches \in {RootPairs(objA.childNodes, objB.childNodes)} :
            /\ \A i \in 0..(Len(objA.childNodes) - 1) :
                  /\ PairsOfOld(matches, i) <= 1
                  /\ PairsOfOld(matches, i) + RemovalsOf(i) = 1
            /\ \A j \in 0..(Len(objB.childNodes) - 1) :
                  /\ PairsOfNew(matches, j) <= 1
                  /\ PairsOfNew(matches, j) + AdditionsOf(j) = 1

\* The tree without the attributes listed in skipAttributes.
RECURSIVE WithoutSkipped(_)
WithoutSkipped(node) ==
    [node EXCEPT
        !.attributes = SelectSeq(@, LAMBDA kv : kv[1] \notin opts.skipAttributes),
        !.childNodes = [i \in 1..Len(@) |-> WithoutSkipped(@[i])]]

\* C26: two trees that differ only in the values or presence of attributes
\* listed in skipAttributes get the empty script.
SkippedAttributesInvisible ==
    (pc = "diffed" /\ WithoutSkipped(objA) = WithoutSkipped(objB)) => script = <<>>

\* A VirtualNode without skip flags, as it is before any diff call.
RECURSIVE Unflagged(_)
Unflagged(node) ==
    [node EXCEPT !.innerDone = FALSE, !.skipFull = FALSE,
                 !.childNodes = [i \in 1..Len(@) |-> Unflagged(@[i])]]

\* A fresh copy of a VirtualNode argument.
FreshCopy(element) == [element EXCEPT !.vnode = Unflagged(@)]

\* C25: the VirtualNodes passed to diff are as they were before the call, and
\* a second diff call on the same objects under other skip options returns
\* the script diff returns for fresh copies of them under those options.
DiffLeavesArguments ==
    (inA.kind = "vnode" /\ inB.kind = "vnode") =>
        /\ inA = FreshCopy(inA)
        /\ inB = FreshCopy(inB)
        /\ pc = "rediffed" => script = diff(FreshCopy(inA), FreshCopy(inB), opts).diffs

\* A second call without skip rule, after a first call whose skip rule hid
\* every difference of the two trees, has returned a script.
RediffedWithoutSkip ==
    /\ pc = "rediffed"
    /\ inA.kind = "vnode" /\ inB.kind = "vnode"
    /\ opts.skipSelector = <<>>
    /\ script # <<>>
    /\ diff(inA, inB, [opts EXCEPT !.skipSelector = SkipScriptStyle]).diffs = <<>>

====
